---- MODULE Spec2Model ----
(***************************************************************************)
(* State-machine model of the code-intelligence core of CodeAgent:         *)
(*   - CacheManager            (src/src/intentgraph/agent/cache.py)        *)
(*   - call-chain tracer       (src/src/intentgraph/ai/enhanced_agent.py)  *)
(*   - layered context loader  (src/src/intentgraph/agent/                 *)
(*                              context_manager.py)                        *)
(* Each subsystem has its own specification (SpecCache, SpecTrace,         *)
(* SpecContext); the variables of the subsystems a specification does not  *)
(* exercise stay at their constructed values.                              *)
(***************************************************************************)
EXTENDS Integers, Sequences, FiniteSets, TLC

VARIABLES
    \* ---- CacheManager ----
    cache_dir,          \* TRUE iff a persistent tier is configured
    ttl_seconds,        \* default time-to-live
    max_memory_items,   \* ceiling of the in-memory map
    memory_cache,       \* the dict, as the sequence of its entries in insertion order
    disk,               \* key -> cache file (absent, corrupt or holding a pickled entry)
    hits, misses,       \* statistics counters
    gets,               \* the number of get calls made so far
    now,                \* the clock read by datetime.now()
    last,               \* the last cache call and what it returned
    \* ---- EnhancedCodebaseAgent: analysis result and one get_call_chain call ----
    files,              \* _analysis_result.files
    symbol,             \* get_call_chain's arguments
    direction,
    max_depth,
    pc,                 \* where the call is: "idle", "upstream", "downstream", "done"
    queue,              \* the BFS deque of (current_symbol, path, depth)
    paths,              \* the local list of finished paths
    visited,            \* the local visited set of "name:file" keys
    chain,              \* the CallChain being returned
    placed,             \* keys of the CallChainNodes the running trace has created
    \* ---- ContextManager ----
    ctx,                \* the last extract_precise_context call and its PreciseContext
    ctxPrev,            \* the call before it
    calls,              \* extract_precise_context calls made so far
    risk,               \* the last _assess_risk_level call and the level it returned
    rankInput,          \* the arguments of rank_context_relevance
    rankResult,         \* what the rank_context_relevance call did
    filterInput,        \* the arguments of filter_and_denoise
    filterOutput,       \* what the filter_and_denoise call returned
    \* ---- concurrent callers of one CacheManager ----
    callers,            \* caller -> where its running call is and its locals
    \* ---- lazy initialisation of one EnhancedCodebaseAgent ----
    agent,              \* _analysis_result, the graphs, _symbol_index, _initialized
    queriers,           \* caller -> where its query is in _ensure_initialized
    located,            \* the last locate_implementation call and what it returned
    \* ---- CacheManager.generate_key ----
    keyCalls,           \* the arguments of two generate_key calls
    keyResults,         \* the keys the two calls returned
    \* ---- CodingAgentWorkflow ----
    cache,              \* self.cache: whether enabled, and the result stored per requirement
    returned,           \* the last workflow call and the WorkflowResult it returned
    \* ---- layer classification of a file path ----
    layerInput,         \* the file path, as its segments
    layerOutput,        \* the layers _get_layer and _detect_layers give it
    \* ---- ContextManager.analyze_impact ----
    impact              \* the last analyze_impact call and its ImpactAnalysis

cacheVars == <<cache_dir, ttl_seconds, max_memory_items, memory_cache, disk,
               hits, misses, gets, now, last>>

traceVars == <<files, symbol, direction, max_depth, pc, queue, paths, visited,
               chain, placed>>

contextVars == <<ctx, ctxPrev, calls>>

riskVars == <<risk>>

rankVars == <<rankInput, rankResult>>

filterVars == <<filterInput, filterOutput>>

raceVars == <<callers>>

buildVars == <<agent, queriers, located>>

keyVars == <<keyCalls, keyResults>>

workflowVars == <<cache, returned>>

layerVars == <<layerInput, layerOutput>>

impactVars == <<impact>>

notCacheVars   == <<traceVars, contextVars, riskVars, rankVars, filterVars, raceVars, buildVars, keyVars, workflowVars, layerVars, impactVars>>
notTraceVars   == <<cacheVars, contextVars, riskVars, rankVars, filterVars, raceVars, buildVars, keyVars, workflowVars, layerVars, impactVars>>
notContextVars == <<cacheVars, traceVars, riskVars, rankVars, filterVars, raceVars, buildVars, keyVars, workflowVars, layerVars, impactVars>>
notRiskVars    == <<cacheVars, traceVars, contextVars, rankVars, filterVars, raceVars, buildVars, keyVars, workflowVars, layerVars, impactVars>>
notRankVars    == <<cacheVars, traceVars, contextVars, riskVars, filterVars, raceVars, buildVars, keyVars, workflowVars, layerVars, impactVars>>
notFilterVars  == <<cacheVars, traceVars, contextVars, riskVars, rankVars, raceVars, buildVars, keyVars, workflowVars, layerVars, impactVars>>
notCacheRaceVars == <<traceVars, contextVars, riskVars, rankVars, filterVars, buildVars, keyVars, workflowVars, layerVars, impactVars>>
notBuildVars   == <<cacheVars, traceVars, contextVars, riskVars, rankVars, filterVars, raceVars, keyVars, workflowVars, layerVars, impactVars>>

notKeyVars == <<cacheVars, traceVars, contextVars, riskVars, rankVars, filterVars, raceVars, buildVars, workflowVars, layerVars, impactVars>>

notWorkflowVars == <<cacheVars, traceVars, contextVars, riskVars, rankVars, filterVars, raceVars, buildVars, keyVars, layerVars, impactVars>>

notLayerVars == <<cacheVars, traceVars, contextVars, riskVars, rankVars, filterVars, raceVars, buildVars, keyVars, workflowVars, impactVars>>

notImpactVars == <<cacheVars, traceVars, contextVars, riskVars, rankVars, filterVars, raceVars, buildVars, keyVars, workflowVars, layerVars>>

vars == <<cacheVars, traceVars, contextVars, riskVars, rankVars, filterVars, raceVars,
          buildVars, keyVars,
          workflowVars,
          layerVars,
          impactVars>>

\* ------------------------------------------------------------------------
\* Bounds of the model
\* ------------------------------------------------------------------------
MaxItems == 1      \* max_memory_items ranges over 1..MaxItems
MaxTTL   == 1      \* ttl arguments range over 0..MaxTTL
MaxGets  == 2      \* get is called at most MaxGets times
MaxTime  == MaxTTL + 1   \* the clock runs from 0 until every ttl has elapsed
MaxEdges == 3      \* call edges of a two-file repository
MaxFan   == 11     \* callers or callees of the hub of a one-file repository
MaxDepth == 3      \* max_depth ranges over 0..MaxDepth
MaxBudgetSteps == 21   \* token budgets range over 500 * (-1..MaxBudgetSteps)
MaxCalls == 2      \* extract_precise_context is called at most MaxCalls times
MaxCallers == 21   \* direct and indirect caller counts range over 0..MaxCallers
MaxContexts == 3   \* rank_context_relevance is given at most MaxContexts contexts
MaxResults == 3    \* filter_and_denoise is given at most MaxResults results
MaxLimit == 2      \* the limit option ranges over 0..MaxLimit
MaxCallsEach == 2  \* each concurrent caller of the cache makes at most MaxCallsEach calls
MaxQueries == 2    \* each caller of the agent makes at most MaxQueries queries
MaxWords == 2      \* a feature description has at most MaxWords words
MaxArgs == 1       \* generate_key is given at most MaxArgs positional arguments
MaxTasks == 2      \* decompose_tasks returns at most MaxTasks tasks
MaxEntries == 20   \* a full memory tier holds at most MaxEntries entries
MaxSegments == 2   \* a file path has at most MaxSegments segments
MaxStrand == 4     \* a strand of callers above the hub is at most MaxStrand long

Keys   == {"k1", "k2"}
Values == {"v1", "v2"}
TTLs   == 0..MaxTTL

NotFound == "None"   \* get's return value None
NoExpiry == -1       \* expires_at = None

Max(a, b) == IF a >= b THEN a ELSE b
Min(a, b) == IF a <= b THEN a ELSE b

\* ------------------------------------------------------------------------
\* CacheEntry and the two tiers
\* ------------------------------------------------------------------------
\* created_at and metadata are stored but never read by any operation; the
\* model keeps the fields the operations read.
CacheEntry(key, value, expires_at) ==
    [key |-> key, value |-> value, expires_at |-> expires_at, hit_count |-> 0]

NullEntry == CacheEntry("-", NotFound, NoExpiry)

AbsentFile     == [state |-> "absent",  entry |-> NullEntry]
CorruptFile    == [state |-> "corrupt", entry |-> NullEntry]
PickledFile(e) == [state |-> "ok",      entry |-> e]

\* `key in self._memory_cache`
InMemory(mem, key) == \E i \in 1..Len(mem) : mem[i].key = key

\* `self._memory_cache[key]`
MemEntry(mem, key) == mem[CHOOSE i \in 1..Len(mem) : mem[i].key = key]

\* `del self._memory_cache[key]`
DictDel(mem, key) == SelectSeq(mem, LAMBDA e : e.key # key)

\* `self._memory_cache[key] = entry`: an existing key keeps its position in the
\* dict's insertion order, a new key goes last.
DictSet(mem, entry) ==
    IF InMemory(mem, entry.key)
    THEN [i \in 1..Len(mem) |-> IF mem[i].key = entry.key THEN entry ELSE mem[i]]
    ELSE Append(mem, entry)

\* `entry.expires_at and datetime.now() > entry.expires_at`
IsExpiredNotAfter(entry, t) == entry.expires_at # NoExpiry /\ t < entry.expires_at
IsExpired(entry, t) == entry.expires_at # NoExpiry /\ t > entry.expires_at

\* `sorted(self._memory_cache.items(), key=lambda x: x[1].hit_count)`: a stable
\* sort, so entries of equal hit_count stay in insertion order.
RECURSIVE SortedByHitCount(_)
SortedByHitCount(mem) ==
    IF mem = <<>> THEN <<>>
    ELSE LET least == CHOOSE h \in {mem[i].hit_count : i \in 1..Len(mem)} :
                         \A i \in 1..Len(mem) : h <= mem[i].hit_count
             first == CHOOSE i \in 1..Len(mem) :
                         /\ mem[i].hit_count = least
                         /\ \A j \in 1..(i - 1) : mem[j].hit_count # least
             rest  == [j \in 1..(Len(mem) - 1) |-> IF j < first THEN mem[j] ELSE mem[j + 1]]
         IN  <<mem[first]>> \o SortedByHitCount(rest)

\* CacheManager._evict_lru
EvictFirstInserted(mem) ==
    SubSeq(mem, Min(Max(1, Len(mem) \div 10), Len(mem)) + 1, Len(mem))
EvictLru(mem) ==
    LET sorted_entries == SortedByHitCount(mem)
        num_to_remove  == Max(1, Len(sorted_entries) \div 10)
        victims == {sorted_entries[i].key :
                        i \in 1..Min(num_to_remove, Len(sorted_entries))}
    IN  SelectSeq(mem, LAMBDA e : e.key \notin victims)

\* ------------------------------------------------------------------------
\* CacheManager operations
\* ------------------------------------------------------------------------
CacheConstructed ==
    /\ cache_dir \in BOOLEAN
    /\ ttl_seconds = MaxTTL
    /\ max_memory_items \in 1..MaxItems
    /\ memory_cache = <<>>
    /\ disk = [k \in Keys |-> AbsentFile]
    /\ hits = 0
    /\ misses = 0
    /\ gets = 0
    /\ now = 0
    /\ last = [op |-> "init", key |-> "-", value |-> NotFound]

\* get returning None with one more miss
MissUncounted(key) ==
    /\ misses' = misses
    /\ hits' = hits
    /\ last' = [op |-> "get", key |-> key, value |-> NotFound]
Miss(key) ==
    /\ misses' = misses + 1
    /\ hits' = hits
    /\ last' = [op |-> "get", key |-> key, value |-> NotFound]

\* get returning the entry's value with one more hit
HitAsMiss(key, entry) == Miss(key)
Hit(key, entry) ==
    /\ hits' = hits + 1
    /\ misses' = misses
    /\ last' = [op |-> "get", key |-> key, value |-> entry.value]

\* CacheManager.get; readFails: open/pickle.load raises on this call
Get(key, readFails) ==
    /\ gets < MaxGets
    /\ gets' = gets + 1
    /\ IF InMemory(memory_cache, key)
       THEN LET entry == MemEntry(memory_cache, key) IN
            /\ ~readFails
            /\ IF IsExpired(entry, now)
               THEN /\ memory_cache' = DictDel(memory_cache, key)
                    /\ Miss(key)
               ELSE /\ memory_cache' = DictSet(memory_cache,
                           [entry EXCEPT !.hit_count = entry.hit_count + 1])
                    /\ Hit(key, entry)
            /\ disk' = disk
       ELSE IF cache_dir /\ disk[key].state # "absent"
       THEN IF disk[key].state = "corrupt" \/ readFails
            THEN /\ Miss(key)
                 /\ UNCHANGED <<memory_cache, disk>>
            ELSE LET entry == disk[key].entry IN
                 IF IsExpired(entry, now)
                 THEN /\ disk' = [disk EXCEPT ![key] = AbsentFile]
                      /\ memory_cache' = memory_cache
                      /\ Miss(key)
                 ELSE /\ memory_cache' = DictSet(memory_cache,
                             [entry EXCEPT !.hit_count = entry.hit_count + 1])
                      /\ disk' = disk
                      /\ Hit(key, entry)
       ELSE /\ ~readFails
            /\ Miss(key)
            /\ UNCHANGED <<memory_cache, disk>>
    /\ UNCHANGED <<cache_dir, ttl_seconds, max_memory_items, now>>

\* CacheManager.set; hasTtl: a ttl_seconds argument is passed; write: how the
\* disk write ends ("ok", "open_fails": the file is left as it was,
\* "dump_fails": the file was opened for writing and holds no valid pickle)
Set(key, value, hasTtl, ttlArg, write) ==
    LET ttl        == IF hasTtl THEN ttlArg ELSE ttl_seconds
        expires_at == IF ttl > 0 THEN now + ttl ELSE NoExpiry
        entry      == CacheEntry(key, value, expires_at)
        stored     == DictSet(memory_cache, entry)
    IN  /\ hasTtl \/ ttlArg = 0
        /\ memory_cache' = IF Len(stored) > max_memory_items
                           THEN EvictLru(stored) ELSE stored
        /\ IF cache_dir
           THEN disk' = CASE write = "ok"         -> [disk EXCEPT ![key] = PickledFile(entry)]
                          [] write = "dump_fails" -> [disk EXCEPT ![key] = CorruptFile]
                          [] OTHER                -> disk
           ELSE /\ write = "ok"
                /\ disk' = disk
        /\ last' = [op |-> "set", key |-> key, value |-> value]
        /\ UNCHANGED <<cache_dir, ttl_seconds, max_memory_items, hits, misses, gets,
                       now>>

\* CacheManager.invalidate
InvalidateMemoryOnly(key) ==
    /\ memory_cache' = DictDel(memory_cache, key)
    /\ disk' = disk
    /\ last' = [op |-> "invalidate", key |-> key, value |-> NotFound]
    /\ UNCHANGED <<cache_dir, ttl_seconds, max_memory_items, hits, misses, gets, now>>
Invalidate(key) ==
    /\ memory_cache' = DictDel(memory_cache, key)
    /\ disk' = IF cache_dir THEN [disk EXCEPT ![key] = AbsentFile] ELSE disk
    /\ last' = [op |-> "invalidate", key |-> key, value |-> NotFound]
    /\ UNCHANGED <<cache_dir, ttl_seconds, max_memory_items, hits, misses, gets, now>>

\* CacheManager.clear
Clear ==
    /\ memory_cache' = <<>>
    /\ disk' = IF cache_dir THEN [k \in Keys |-> AbsentFile] ELSE disk
    /\ last' = [op |-> "clear", key |-> "-", value |-> NotFound]
    /\ UNCHANGED <<cache_dir, ttl_seconds, max_memory_items, hits, misses, gets, now>>

\* a fraction num / den
Fraction(num, den) == [num |-> num, den |-> den]

\* CacheManager.get_stats
GetStats ==
    LET total_requests == hits + misses IN
    [hits           |-> hits,
     misses         |-> misses,
     hit_rate       |-> IF total_requests > 0 THEN Fraction(hits, total_requests)
                        ELSE Fraction(0, 1),
     memory_items   |-> Len(memory_cache),
     total_requests |-> total_requests]

\* one second passes on the clock
Tick ==
    /\ now < MaxTime
    /\ now' = now + 1
    /\ last' = [op |-> "tick", key |-> "-", value |-> NotFound]
    /\ UNCHANGED <<cache_dir, ttl_seconds, max_memory_items, memory_cache, disk,
                   hits, misses, gets>>

\* SpecCache runs the cache over a disk that neither fails nor corrupts a blob
GetCall        == /\ \E key \in Keys : Get(key, FALSE)
                  /\ UNCHANGED notCacheVars
SetCall        == /\ \E key \in Keys, value \in Values, hasTtl \in BOOLEAN, ttlArg \in TTLs :
                        Set(key, value, hasTtl, ttlArg, "ok")
                  /\ UNCHANGED notCacheVars
InvalidateCall == /\ \E key \in Keys : Invalidate(key)
                  /\ UNCHANGED notCacheVars
ClearCall      == Clear /\ UNCHANGED notCacheVars
ClockTick      == Tick /\ UNCHANGED notCacheVars

\* get and set (with the default ttl) over a disk whose reads and writes may
\* fail
GetAnyCall == /\ \E key \in Keys, readFails \in BOOLEAN : Get(key, readFails)
              /\ UNCHANGED notCacheVars
SetAnyCall == /\ \E key \in Keys, value \in Values,
                    write \in {"ok", "open_fails", "dump_fails"} :
                    Set(key, value, FALSE, 0, write)
              /\ UNCHANGED notCacheVars

\* ------------------------------------------------------------------------
\* Analysis results (the input of EnhancedCodebaseAgent)
\* ------------------------------------------------------------------------
\* A file is [path, symbols, function_dependencies]; a symbol is [id, name]; a
\* function dependency is [from_symbol, to_symbol] (symbol ids).  Line numbers,
\* symbol types, signatures and docstrings are copied through by the tracer
\* and never read by it; the model leaves them out.
Sym(id, name) == [id |-> id, name |-> name]
Dep(from, to) == [from_symbol |-> from, to_symbol |-> to]

\* the elements of a finite set of pairs <<from, to>> as a sequence, in
\* ascending order of (from, to)
RECURSIVE SortedDeps(_)
SortedDeps(edges) ==
    IF edges = {} THEN <<>>
    ELSE LET e == CHOOSE x \in edges :
                     \A y \in edges : x[1] < y[1] \/ (x[1] = y[1] /\ x[2] <= y[2])
         IN  <<Dep(e[1], e[2])>> \o SortedDeps(edges \ {e})

\* Two-file repositories: a.py defines A (id 1) and B (id 2), b.py defines C
\* (id 3) and a second symbol named A (id 4); each call edge is listed in the
\* function_dependencies of the calling symbol's file.
SmallIds == 1..4
SmallRepo(edges) ==
    << [path |-> "a.py",
        symbols |-> <<Sym(1, "A"), Sym(2, "B")>>,
        function_dependencies |-> SortedDeps({e \in edges : e[1] \in {1, 2}})],
       [path |-> "b.py",
        symbols |-> <<Sym(3, "C"), Sym(4, "A")>>,
        function_dependencies |-> SortedDeps({e \in edges : e[1] \in {3, 4}})] >>

\* One-file repositories with a hub H and n other symbols: the hub calls each
\* of them ("out"), or each of them calls the hub ("in").
FanRepo(n, way) ==
    << [path |-> "f.py",
        symbols |-> [i \in 1..(n + 1) |->
                        IF i = 1 THEN Sym(1, "H") ELSE Sym(i, "L" \o ToString(i))],
        function_dependencies |-> [i \in 1..n |->
                        IF way = "out" THEN Dep(1, i + 1) ELSE Dep(i + 1, 1)]] >>

\* The three-file repository in which foo (a.py) calls bar (b.py) and bar
\* calls baz (c.py), each call edge listed in the calling symbol's file.
ChainRepo ==
    << [path |-> "a.py", symbols |-> <<Sym(1, "foo")>>,
        function_dependencies |-> <<Dep(1, 2)>>],
       [path |-> "b.py", symbols |-> <<Sym(2, "bar")>>,
        function_dependencies |-> <<Dep(2, 3)>>],
       [path |-> "c.py", symbols |-> <<Sym(3, "baz")>>,
        function_dependencies |-> <<>>] >>

Repositories ==
    {SmallRepo(edges) : edges \in {E \in SUBSET (SmallIds \X SmallIds) :
                                      Cardinality(E) <= MaxEdges}}
    \cup {FanRepo(n, way) : n \in 0..MaxFan, way \in {"out", "in"}}
    \cup {ChainRepo}

UnknownSymbol == "zz"

\* every symbol name of the analysis result
NamesOf(fs) ==
    UNION {{fs[i].symbols[j].name : j \in 1..Len(fs[i].symbols)} : i \in 1..Len(fs)}

\* ------------------------------------------------------------------------
\* Symbol lookup
\* ------------------------------------------------------------------------
CodeLocation(file_path, symbol_name) ==
    [file_path |-> file_path, symbol_name |-> symbol_name]

\* `next((s for s in symbols if <test>), None)`: the index of the first symbol
\* passing the test, 0 for None
FirstNamed(symbols, name) ==
    IF \E j \in 1..Len(symbols) : symbols[j].name = name
    THEN CHOOSE j \in 1..Len(symbols) :
            /\ symbols[j].name = name
            /\ \A l \in 1..(j - 1) : symbols[l].name # name
    ELSE 0

FirstWithId(symbols, id) ==
    IF \E j \in 1..Len(symbols) : symbols[j].id = id
    THEN CHOOSE j \in 1..Len(symbols) :
            /\ symbols[j].id = id
            /\ \A l \in 1..(j - 1) : symbols[l].id # id
    ELSE 0

\* `symbol in self._symbol_index`
InSymbolIndex(fs, name) == \E i \in 1..Len(fs) : FirstNamed(fs[i].symbols, name) # 0

\* `self._symbol_index[symbol][0]`: _build_symbol_index appends the locations
\* file by file, so the first location is in the first file defining the name
FirstLocation(fs, name) ==
    LET i == CHOOSE i \in 1..Len(fs) :
                /\ FirstNamed(fs[i].symbols, name) # 0
                /\ \A l \in 1..(i - 1) : FirstNamed(fs[l].symbols, name) = 0
    IN  CodeLocation(fs[i].path, name)

\* EnhancedCodebaseAgent._find_symbol_by_uuid: a one-element sequence, or <<>> for None
FindSymbolByUuid(fs, id) ==
    IF \E i \in 1..Len(fs) : FirstWithId(fs[i].symbols, id) # 0
    THEN LET i == CHOOSE i \in 1..Len(fs) :
                     /\ FirstWithId(fs[i].symbols, id) # 0
                     /\ \A l \in 1..(i - 1) : FirstWithId(fs[l].symbols, id) = 0
         IN  <<CodeLocation(fs[i].path, fs[i].symbols[FirstWithId(fs[i].symbols, id)].name)>>
    ELSE <<>>

\* s1 \o s2 \o ... for a sequence of sequences
RECURSIVE Flatten(_)
Flatten(seqs) == IF seqs = <<>> THEN <<>> ELSE Head(seqs) \o Flatten(Tail(seqs))

\* the callers _find_callers collects from one file
CallersInFile(f, name) ==
    LET t == FirstNamed(f.symbols, name) IN
    IF t = 0 THEN <<>>
    ELSE LET found == SelectSeq(f.function_dependencies,
                         LAMBDA dep : /\ dep.to_symbol = f.symbols[t].id
                                      /\ FirstWithId(f.symbols, dep.from_symbol) # 0)
         IN  [k \in 1..Len(found) |->
                 CodeLocation(f.path,
                     f.symbols[FirstWithId(f.symbols, found[k].from_symbol)].name)]

\* EnhancedCodebaseAgent._find_callers
FindCallers(fs, name) == Flatten([i \in 1..Len(fs) |-> CallersInFile(fs[i], name)])

\* the callees _find_callees collects from one file
CalleesInFile(fs, f, name) ==
    LET s == FirstNamed(f.symbols, name) IN
    IF s = 0 THEN <<>>
    ELSE LET from == SelectSeq(f.function_dependencies,
                         LAMBDA dep : dep.from_symbol = f.symbols[s].id)
         IN  Flatten([k \in 1..Len(from) |-> FindSymbolByUuid(fs, from[k].to_symbol)])

\* EnhancedCodebaseAgent._find_callees
FindCallees(fs, name) == Flatten([i \in 1..Len(fs) |-> CalleesInFile(fs, fs[i], name)])

\* ------------------------------------------------------------------------
\* Call-chain tracing
\* ------------------------------------------------------------------------
CallChainNode(symbol_name, file_path, depth) ==
    [symbol_name |-> symbol_name, file_path |-> file_path, depth |-> depth]

\* f"{symbol_name}:{file_path}"
KeyOf(x) == <<x.symbol_name, x.file_path>>

NoChain == [target |-> CallChainNode("-", "-", 0), upstream |-> <<>>,
            downstream |-> <<>>, entry_points |-> <<>>, leaf_nodes |-> <<>>]

\* the callers or callees the trace in direction dir asks for
Neighbours(fs, dir, name) ==
    IF dir = "upstream" THEN FindCallers(fs, name) ELSE FindCallees(fs, name)

\* the `for caller in callers` loop: every neighbour whose key is not in
\* visited is marked visited and queued behind a path extended by its node
RECURSIVE Expand(_, _, _, _)
Expand(found, item, q, seen) ==
    IF found = <<>> THEN [queue |-> q, visited |-> seen]
    ELSE LET caller == Head(found) IN
         IF KeyOf(caller) \notin seen
         THEN Expand(Tail(found), item,
                     Append(q, [symbol |-> caller.symbol_name,
                                path   |-> Append(item.path,
                                              CallChainNode(caller.symbol_name,
                                                            caller.file_path,
                                                            item.depth + 1)),
                                depth  |-> item.depth + 1]),
                     seen \cup {KeyOf(caller)})
         ELSE Expand(Tail(found), item, q, seen)

\* the same loop without the visited test
RECURSIVE ExpandUnchecked(_, _, _, _)
ExpandUnchecked(found, item, q, seen) ==
    IF found = <<>> THEN [queue |-> q, visited |-> seen]
    ELSE LET caller == Head(found) IN
         ExpandUnchecked(Tail(found), item,
                     Append(q, [symbol |-> caller.symbol_name,
                                path   |-> Append(item.path,
                                              CallChainNode(caller.symbol_name,
                                                            caller.file_path,
                                                            item.depth + 1)),
                                depth  |-> item.depth + 1]),
                     seen \cup {KeyOf(caller)})

\* the loop _trace_upstream / _trace_downstream run over one popped item
ExpandNeighbours(found, item, q, seen) == Expand(found, item, q, seen)

\* the locals of _trace_upstream / _trace_downstream before the while loop
TraceStart(fs, name) ==
    LET start == FirstLocation(fs, name) IN
    [queue   |-> <<[symbol |-> name,
                    path   |-> <<CallChainNode(name, start.file_path, 0)>>,
                    depth  |-> 0]>>,
     paths   |-> <<>>,
     visited |-> {}]

\* one iteration of the while loop over the locals st
BfsStep(fs, dir, depthLimit, st) ==
    LET item == Head(st.queue)
        rest == Tail(st.queue)
    IN  IF item.depth >= depthLimit
        THEN [st EXCEPT !.queue = rest, !.paths = Append(st.paths, item.path)]
        ELSE LET found == Neighbours(fs, dir, item.symbol) IN
             IF found = <<>>
             THEN [st EXCEPT !.queue = rest, !.paths = Append(st.paths, item.path)]
             ELSE LET grown == ExpandNeighbours(found, item, rest, st.visited)
                  IN  [st EXCEPT !.queue = grown.queue, !.visited = grown.visited]

\* `paths[:10]`
PathLimit == 10
FirstPaths(ps) == SubSeq(ps, 1, Min(PathLimit, Len(ps)))
AllPaths(ps) == ps
ReturnedPaths(ps) == FirstPaths(ps)

\* _find_entry_points_from_paths / _find_leaf_nodes_from_paths: the last node
\* of every path, without repeating a key
RECURSIVE EndNodes(_, _)
EndNodes(ps, seen) ==
    IF ps = <<>> THEN <<>>
    ELSE LET end == Head(ps)[Len(Head(ps))] IN
         IF KeyOf(end) \notin seen
         THEN <<end>> \o EndNodes(Tail(ps), seen \cup {KeyOf(end)})
         ELSE EndNodes(Tail(ps), seen)

\* no get_call_chain call is in progress
TraceIdle ==
    /\ files = <<>>
    /\ symbol = "-"
    /\ direction = "-"
    /\ max_depth = 0
    /\ pc = "idle"
    /\ queue = <<>>
    /\ paths = <<>>
    /\ visited = {}
    /\ chain = NoChain
    /\ placed = <<>>

\* the agent constructed over one analysed repository
AgentConstructed ==
    /\ files \in Repositories
    /\ symbol = "-"
    /\ direction = "-"
    /\ max_depth = 0
    /\ pc = "idle"
    /\ queue = <<>>
    /\ paths = <<>>
    /\ visited = {}
    /\ chain = NoChain
    /\ placed = <<>>

\* the locals of a trace that starts in direction dir
EnterTrace(name, dir) ==
    LET st == TraceStart(files, name) IN
    /\ pc' = dir
    /\ queue' = st.queue
    /\ paths' = st.paths
    /\ visited' = st.visited
    /\ placed' = <<KeyOf(st.queue[1].path[1])>>

\* EnhancedCodebaseAgent.get_call_chain, up to its first trace
GetCallChain(name, dir, depthLimit) ==
    /\ pc = "idle"
    /\ symbol' = name
    /\ direction' = dir
    /\ max_depth' = depthLimit
    /\ files' = files
    /\ IF ~InSymbolIndex(files, name)
       THEN /\ chain' = [NoChain EXCEPT !.target = CallChainNode(name, "not_found", 0)]
            /\ pc' = "done"
            /\ UNCHANGED <<queue, paths, visited, placed>>
       ELSE /\ chain' = [NoChain EXCEPT !.target =
                            CallChainNode(name, FirstLocation(files, name).file_path, 0)]
            /\ EnterTrace(name, IF dir \in {"upstream", "both"} THEN "upstream" ELSE "downstream")

\* one iteration of the while loop of the running trace
TraceStep(dir) ==
    /\ pc = dir
    /\ queue # <<>>
    /\ LET st == BfsStep(files, dir, max_depth,
                         [queue |-> queue, paths |-> paths, visited |-> visited])
       IN  /\ queue' = st.queue
           /\ paths' = st.paths
           /\ visited' = st.visited
           /\ placed' = placed \o [k \in 1..(Len(st.queue) - Len(queue) + 1) |->
                                      LET p == st.queue[Len(queue) - 1 + k].path
                                      IN  KeyOf(p[Len(p)])]
    /\ UNCHANGED <<files, symbol, direction, max_depth, pc, chain>>

\* _trace_upstream returns; get_call_chain goes on to the downstream trace or returns
UpstreamReturn ==
    /\ pc = "upstream"
    /\ queue = <<>>
    /\ chain' = [chain EXCEPT !.upstream = ReturnedPaths(paths),
                              !.entry_points = EndNodes(ReturnedPaths(paths), {})]
    /\ IF direction = "both"
       THEN EnterTrace(symbol, "downstream")
       ELSE /\ pc' = "done"
            /\ UNCHANGED <<queue, paths, visited, placed>>
    /\ UNCHANGED <<files, symbol, direction, max_depth>>

\* _trace_downstream returns, and get_call_chain with it
DownstreamReturn ==
    /\ pc = "downstream"
    /\ queue = <<>>
    /\ chain' = [chain EXCEPT !.downstream = ReturnedPaths(paths),
                              !.leaf_nodes = EndNodes(ReturnedPaths(paths), {})]
    /\ pc' = "done"
    /\ UNCHANGED <<files, symbol, direction, max_depth, queue, paths, visited,
                   placed>>

Directions == {"upstream", "downstream", "both"}

GetCallChainCall ==
    /\ \E name \in NamesOf(files) \cup {UnknownSymbol}, dir \in Directions,
          depthLimit \in 0..MaxDepth : GetCallChain(name, dir, depthLimit)
    /\ UNCHANGED notTraceVars
UpstreamStep         == TraceStep("upstream") /\ UNCHANGED notTraceVars
DownstreamStep       == TraceStep("downstream") /\ UNCHANGED notTraceVars
UpstreamReturnStep   == UpstreamReturn /\ UNCHANGED notTraceVars
DownstreamReturnStep == DownstreamReturn /\ UNCHANGED notTraceVars

\* ------------------------------------------------------------------------
\* Whole get_call_chain calls
\* ------------------------------------------------------------------------
\* the while loop of a trace, run until the queue is empty
RECURSIVE RunBfs(_, _, _, _)
RunBfs(fs, dir, depthLimit, st) ==
    IF st.queue = <<>> THEN st.paths
    ELSE RunBfs(fs, dir, depthLimit, BfsStep(fs, dir, depthLimit, st))

\* _trace_upstream / _trace_downstream
TracePathsOf(fs, name, dir, depthLimit) ==
    IF ~InSymbolIndex(fs, name) THEN <<>>
    ELSE ReturnedPaths(RunBfs(fs, dir, depthLimit, TraceStart(fs, name)))

\* EnhancedCodebaseAgent.get_call_chain as one call
CallChainOf(fs, name, dir, depthLimit) ==
    IF ~InSymbolIndex(fs, name)
    THEN [NoChain EXCEPT !.target = CallChainNode(name, "not_found", 0)]
    ELSE LET up   == IF dir \in {"upstream", "both"}
                     THEN TracePathsOf(fs, name, "upstream", depthLimit) ELSE <<>>
             down == IF dir \in {"downstream", "both"}
                     THEN TracePathsOf(fs, name, "downstream", depthLimit) ELSE <<>>
         IN  [target       |-> CallChainNode(name, FirstLocation(fs, name).file_path, 0),
              upstream     |-> up,
              downstream   |-> down,
              entry_points |-> EndNodes(up, {}),
              leaf_nodes   |-> EndNodes(down, {})]

\* ------------------------------------------------------------------------
\* Feature location
\* ------------------------------------------------------------------------
\* the locations _build_symbol_index files under one name, in file order
LocationsOf(fs, name) ==
    Flatten([i \in 1..Len(fs) |->
        LET named == SelectSeq(fs[i].symbols, LAMBDA s : s.name = name)
        IN  [k \in 1..Len(named) |-> CodeLocation(fs[i].path, name)]])

\* the keys of _symbol_index in insertion order: every name at its first
\* occurrence
RECURSIVE FirstOccurrences(_, _)
FirstOccurrences(names, seen) ==
    IF names = <<>> THEN <<>>
    ELSE IF Head(names) \in seen THEN FirstOccurrences(Tail(names), seen)
         ELSE <<Head(names)>> \o FirstOccurrences(Tail(names), seen \cup {Head(names)})

IndexNames(fs) ==
    FirstOccurrences(Flatten([i \in 1..Len(fs) |->
                        [j \in 1..Len(fs[i].symbols) |-> fs[i].symbols[j].name]]), {})

\* `keyword in symbol_lower`.  No two names of the repositories above differ
\* in case only and none is a proper substring of another, nor is
\* UnknownSymbol one of any of them, so over these names the substring test
\* on the lower-cased strings is decided by equality.
KeywordIn(keyword, name) == keyword = name

\* EnhancedCodebaseAgent.locate_implementation for a one-word description:
\* relevance is 1.0 for every name holding the word, so the stable sort
\* keeps the index order; `locations[:10]`
LocateLimit == 10
LocateImplementation(fs, word) ==
    LET matched == Flatten([n \in 1..Len(IndexNames(fs)) |->
                    IF KeywordIn(word, IndexNames(fs)[n])
                    THEN LocationsOf(fs, IndexNames(fs)[n]) ELSE <<>>])
    IN  SubSeq(matched, 1, Min(LocateLimit, Len(matched)))

\* EnhancedCodebaseAgent.find_similar_patterns
FindSimilarPatterns(fs, pattern) == LocateImplementation(fs, pattern)

\* ------------------------------------------------------------------------
\* ContextManager.extract_precise_context
\* ------------------------------------------------------------------------
\* ContextLayer, in loading order
Layers == <<"core", "dependencies", "call_chain", "patterns">>

\* self._token_estimates
TokenEstimatesSwapped ==
    [core |-> 1000, dependencies |-> 4000, call_chain |-> 3000, patterns |-> 2000]
TokenEstimates ==
    [core |-> 1000, dependencies |-> 2000, call_chain |-> 3000, patterns |-> 4000]

\* `remaining_budget >= self._token_estimates[layer]`
BudgetBelow(remaining_budget, cost) == remaining_budget <= cost
BudgetLeft(remaining_budget, cost) == remaining_budget > 0
BudgetAllows(remaining_budget, cost) == remaining_budget >= cost

\* ContextManager._get_target_code: <<>> for {}
GetTargetCodeStub(fs, name) == <<[symbol |-> name, file |-> "not_found"]>>
GetTargetCode(fs, name) ==
    IF ~InSymbolIndex(fs, name) THEN <<>>
    ELSE <<[symbol |-> name, file |-> FirstLocation(fs, name).file_path]>>

\* ContextManager._get_direct_dependencies: `callees[:5]`
DependencyLimit == 5
GetDirectDependencies(fs, name) ==
    LET callees == FindCallees(fs, name)
    IN  SubSeq(callees, 1, Min(DependencyLimit, Len(callees)))

\* ContextManager._get_call_chain_context: the nodes after the target on the
\* first three paths of each direction, and the first three entry points
ChainPathLimit == 3
TopPaths(ps) == SubSeq(ps, 1, Min(ChainPathLimit, Len(ps)))
GetCallChainContext(fs, name, depth) ==
    LET call_chain == CallChainOf(fs, name, "both", depth) IN
    [upstream     |-> Flatten([k \in 1..Len(TopPaths(call_chain.upstream)) |->
                                  Tail(call_chain.upstream[k])]),
     downstream   |-> Flatten([k \in 1..Len(TopPaths(call_chain.downstream)) |->
                                  Tail(call_chain.downstream[k])]),
     entry_points |-> TopPaths(call_chain.entry_points)]

\* ContextManager._find_similar_patterns: `locations[:limit]`
FindPatterns(fs, name, limit) ==
    LET locations == FindSimilarPatterns(fs, name)
    IN  SubSeq(locations, 1, Min(limit, Len(locations)))

\* PreciseContext(target_code={}); call_chain is <<>> for None
EmptyContext ==
    [target_code         |-> <<>>,
     direct_dependencies |-> <<>>,
     call_chain          |-> <<>>,
     similar_patterns    |-> <<>>,
     token_estimate      |-> 0,
     layers_included     |-> <<>>]

\* the depth of the call-chain layer and the number of patterns asked for
ChainDepth == 2
PatternCount == 3

\* the body of extract_precise_context: the PreciseContext it returns
PreciseContext(fs, target, token_budget) ==
    LET cost == TokenEstimates
        target_code == GetTargetCode(fs, target)
    IN
    IF target_code = <<>> THEN EmptyContext
    ELSE
    LET c1 == [EmptyContext EXCEPT !.target_code = target_code,
                                   !.layers_included = Append(@, "core"),
                                   !.token_estimate = @ + cost.core]
        r1 == token_budget - cost.core
        in2 == BudgetAllows(r1, cost.dependencies)
        c2 == IF in2
              THEN [c1 EXCEPT !.direct_dependencies = GetDirectDependencies(fs, target),
                              !.layers_included = Append(@, "dependencies"),
                              !.token_estimate = @ + cost.dependencies]
              ELSE c1
        r2 == IF in2 THEN r1 - cost.dependencies ELSE r1
        in3 == BudgetAllows(r2, cost.call_chain)
        c3 == IF in3
              THEN [c2 EXCEPT !.call_chain = <<GetCallChainContext(fs, target, ChainDepth)>>,
                              !.layers_included = Append(@, "call_chain"),
                              !.token_estimate = @ + cost.call_chain]
              ELSE c2
        r3 == IF in3 THEN r2 - cost.call_chain ELSE r2
        in4 == BudgetAllows(r3, cost.patterns)
        c4 == IF in4
              THEN [c3 EXCEPT !.similar_patterns = FindPatterns(fs, target, PatternCount),
                              !.layers_included = Append(@, "patterns"),
                              !.token_estimate = @ + Min(r3, cost.patterns)]
              ELSE c3
    IN  c4

\* no extract_precise_context call has been made
NoCall == [called |-> FALSE, target |-> "-", token_budget |-> 0, result |-> EmptyContext]

ContextUnused ==
    /\ ctx = NoCall
    /\ ctxPrev = NoCall
    /\ calls = 0

\* ContextManager.extract_precise_context(target, token_budget)
ExtractPreciseContext(target, token_budget) ==
    /\ pc = "idle"
    /\ calls < MaxCalls
    /\ calls' = calls + 1
    /\ ctx' = [called |-> TRUE, target |-> target, token_budget |-> token_budget,
               result |-> PreciseContext(files, target, token_budget)]
    /\ ctxPrev' = ctx

\* the token budgets tried: from below zero to past the cost of all four layers
Budgets == {b * 500 : b \in -1..MaxBudgetSteps}

ExtractPreciseContextCall ==
    /\ \E target \in NamesOf(files) \cup {UnknownSymbol}, token_budget \in Budgets :
          ExtractPreciseContext(target, token_budget)
    /\ UNCHANGED notContextVars

\* ------------------------------------------------------------------------
\* ContextManager._assess_risk_level
\* ------------------------------------------------------------------------
ChangeTypes == {"signature_change", "implementation_change", "deletion", "addition"}

\* `direct_callers > 10`
AtLeast(count, threshold) == count >= threshold
Under(count, threshold) == count < threshold
Exceeds(count, threshold) == count > threshold

AssessRiskLevel(change_type, direct_callers, indirect_callers) ==
    IF change_type \in {"deletion", "signature_change"}
    THEN IF Exceeds(direct_callers, 10) \/ Exceeds(indirect_callers, 20) THEN "high"
         ELSE IF Exceeds(direct_callers, 3) \/ Exceeds(indirect_callers, 10) THEN "medium"
         ELSE "low"
    ELSE IF change_type = "implementation_change"
    THEN IF Exceeds(direct_callers, 20) THEN "medium" ELSE "low"
    ELSE "low"

\* no _assess_risk_level call has been made
NoRisk == [called |-> FALSE, change_type |-> "-", direct_callers |-> 0,
           indirect_callers |-> 0, level |-> "low"]

RiskUnused == risk = NoRisk

\* one _assess_risk_level call
AssessRiskLevelCall ==
    /\ \E change_type \in ChangeTypes, direct_callers \in 0..MaxCallers,
          indirect_callers \in 0..MaxCallers :
          risk' = [called |-> TRUE, change_type |-> change_type,
                   direct_callers |-> direct_callers,
                   indirect_callers |-> indirect_callers,
                   level |-> AssessRiskLevel(change_type, direct_callers, indirect_callers)]
    /\ UNCHANGED notRiskVars

\* ------------------------------------------------------------------------
\* ContextManager.rank_context_relevance
\* ------------------------------------------------------------------------
\* A context is a dict; the model keeps the five keys the scoring reads.  A
\* key that is absent holds FieldMissing, a key holding None holds FieldNone.
FieldMissing == "<missing>"
FieldNone    == "<none>"

\* `key in context`
HasKey(v) == v # FieldMissing
\* the truth value of context.get(key) for a text field
Truthy(v) == v \notin {FieldMissing, FieldNone, ""}

\* `text.lower().split()` as a set, for the texts of the model
WordsOf(text) ==
    CASE text = "save"                    -> {"save"}
      [] text = "_run"                    -> {"_run"}
      [] text = "go"                      -> {"go"}
      [] text = "save user"               -> {"save", "user"}
      [] text = "def save(x)"             -> {"def", "save(x)"}
      [] text = "def go(x: int) -> int"   -> {"def", "go(x:", "int)", "->", "int"}
      [] OTHER                            -> {}

\* `"->" in signature or ":" in signature`
HasTypeHints(signature) == signature = "def go(x: int) -> int"

\* `len(symbol) > 3 and not symbol.startswith("_")`
IsGoodName(name) == name = "save"

Context(name, docstring, signature, dependencies, call_chain) ==
    [symbol |-> name, docstring |-> docstring, signature |-> signature,
     dependencies |-> dependencies, call_chain |-> call_chain]

\* a list of dependency dicts by their names, a call chain by the symbols of
\* its upstream and downstream nodes
Listed(names) == [tag |-> "value", names |-> names]
Absent        == [tag |-> "missing", names |-> <<>>]
HoldsNone     == [tag |-> "none", names |-> <<>>]

ContextSamples ==
    { Context("save", "save user", "def save(x)", Listed(<<>>), Absent),
      Context("save", FieldMissing, FieldMissing, Absent, Absent),
      Context("go", FieldMissing, "def go(x: int) -> int", Listed(<<"save">>), Absent),
      Context("go", "", FieldMissing, Absent, Listed(<<"save">>)),
      Context("_run", FieldNone, FieldMissing, Listed(<<"go">>), HoldsNone),
      Context(FieldMissing, FieldMissing, FieldMissing, Absent, Absent),
      Context(FieldNone, FieldMissing, FieldMissing, Absent, Absent),
      Context("save", "save user", FieldNone, Absent, Absent),
      Context("go", FieldMissing, FieldMissing, HoldsNone, Absent) }

\* "" is the empty task, " " a task of white space only
Tasks == {"", " ", "save", "save user"}
Targets == {"save", "go"}

\* `set(context_text.split())`
ContextWords(context) ==
    (IF HasKey(context.symbol) THEN WordsOf(context.symbol) ELSE {})
    \cup (IF Truthy(context.docstring) THEN WordsOf(context.docstring) ELSE {})
    \cup (IF Truthy(context.signature) THEN WordsOf(context.signature) ELSE {})

\* the scores are kept in hundredths
\* ContextManager._semantic_similarity
SemanticSimilarity(context, task) ==
    IF task = "" THEN 50
    ELSE IF ContextWords(context) = {} THEN 0
    ELSE Min(100, (100 * Cardinality(WordsOf(task) \cap ContextWords(context)))
                     \div Cardinality(WordsOf(task)))

\* None.lower() on a symbol of None, or a division by len(task_keywords) = 0
SemanticSimilarityRaises(context, task) ==
    /\ task # ""
    /\ \/ context.symbol = FieldNone
       \/ ContextWords(context) # {} /\ WordsOf(task) = {}

\* ContextManager._dependency_strength
DependencyStrength(context, target) ==
    IF context.symbol = target THEN 100
    ELSE IF \E k \in 1..Len(context.dependencies.names) :
                context.dependencies.names[k] = target
    THEN 80
    ELSE IF \E k \in 1..Len(context.call_chain.names) :
                context.call_chain.names[k] = target
    THEN 50
    ELSE 10

\* iterating over dependencies of None
DependencyStrengthRaises(context, target) ==
    /\ context.symbol # target
    /\ context.dependencies.tag = "none"

\* ContextManager._code_quality
CodeQuality(context) ==
    Min(100, 50 + (IF Truthy(context.docstring) THEN 20 ELSE 0)
                + (IF HasTypeHints(context.signature) THEN 20 ELSE 0)
                + (IF IsGoodName(context.symbol) THEN 10 ELSE 0))

\* `"->" in None`, len(None)
CodeQualityRaises(context) ==
    context.signature = FieldNone \/ context.symbol = FieldNone

\* the weighted total, in ten-thousandths.  The code adds floats; two
\* contexts with the same three part scores get the same float, so every
\* tie of the code is a tie here.
TotalScore(context, task, target) ==
    50 * SemanticSimilarity(context, task)
    + 30 * DependencyStrength(context, target)
    + 20 * CodeQuality(context)

ScoringRaises(context, task, target) ==
    \/ SemanticSimilarityRaises(context, task)
    \/ DependencyStrengthRaises(context, target)
    \/ CodeQualityRaises(context)

\* the last position holding the highest score
LastHighest(scores) ==
    CHOOSE k \in 1..Len(scores) :
        /\ \A l \in 1..Len(scores) : scores[l].score <= scores[k].score
        /\ \A l \in (k + 1)..Len(scores) : scores[l].score < scores[k].score
\* the position sorted(..., reverse=True) emits next: the first of the
\* highest scores (the sort is stable)
FirstHighest(scores) ==
    CHOOSE k \in 1..Len(scores) :
        /\ \A l \in 1..Len(scores) : scores[l].score <= scores[k].score
        /\ \A l \in 1..(k - 1) : scores[l].score < scores[k].score

\* `sorted(scores, key=lambda x: x[1], reverse=True)`
RECURSIVE SortedByScore(_)
SortedByScore(scores) ==
    IF scores = <<>> THEN <<>>
    ELSE LET k == FirstHighest(scores) IN
         <<scores[k]>> \o SortedByScore(SubSeq(scores, 1, k - 1)
                                        \o SubSeq(scores, k + 1, Len(scores)))

\* the body of rank_context_relevance: the (context, score) pairs, sorted,
\* or the exception of the first scoring that raises
RankContextRelevance(contexts, task, target) ==
    IF \E k \in 1..Len(contexts) : ScoringRaises(contexts[k], task, target)
    THEN [status |-> "raised", ranking |-> <<>>]
    ELSE [status |-> "returned",
          ranking |-> SortedByScore([k \in 1..Len(contexts) |->
                          [context |-> contexts[k],
                           score   |-> TotalScore(contexts[k], task, target)]])]

NotRanked == [status |-> "none", ranking |-> <<>>]

RankUnused ==
    /\ rankInput = [contexts |-> <<>>, task |-> "", target |-> "save"]
    /\ rankResult = NotRanked

\* the arguments a caller is about to pass
RankArguments ==
    /\ rankInput \in [contexts : UNION {[1..n -> ContextSamples] : n \in 0..MaxContexts},
                      task : Tasks, target : Targets]
    /\ rankResult = NotRanked

\* ContextManager.rank_context_relevance(contexts, task, target)
RankContextRelevanceCall ==
    /\ rankResult = NotRanked
    /\ rankResult' = RankContextRelevance(rankInput.contexts, rankInput.task,
                                          rankInput.target)
    /\ UNCHANGED rankInput
    /\ UNCHANGED notRankVars

\* ------------------------------------------------------------------------
\* ContextManager.filter_and_denoise
\* ------------------------------------------------------------------------
\* an option or field that is absent, and one that is given with a value
NotGiven(default) == [present |-> FALSE, value |-> default]
Given(value) == [present |-> TRUE, value |-> value]

\* `d.get(key, default)`
GetOr(field, default) == IF field.present THEN field.value ELSE default

\* the file paths of the model
FilePaths == {"src/module.py", "tests/test_module.py", "src/domain/model.py",
              "src/api/routes.py"}

\* ContextManager._is_test_file
IsTestFile(file_path) == file_path = "tests/test_module.py"

\* ContextManager._get_layer
GetLayer(file_path) ==
    CASE file_path = "src/domain/model.py" -> "domain"
      [] file_path = "src/api/routes.py"   -> "api"
      [] OTHER                             -> "other"

\* a result dict: its file and its similarity, in hundredths
Result(file_path, similarity) == [file |-> file_path, similarity |-> similarity]

ResultSamples ==
    { Result("src/module.py", Given(90)),
      Result("tests/test_module.py", Given(90)),
      Result("tests/test_module.py", NotGiven(0)),
      Result("src/domain/model.py", Given(30)),
      Result("src/api/routes.py", NotGiven(0)) }

\* the filters dict
FilterOptions ==
    [exclude_tests   : {NotGiven(FALSE), Given(TRUE), Given(FALSE)},
     min_similarity  : {NotGiven(0), Given(60)},
     same_layer_only : {NotGiven(FALSE), Given(TRUE), Given(FALSE)},
     target          : {NotGiven(""), Given("src/domain/model.py")},
     limit           : {NotGiven(0)} \cup {Given(n) : n \in 0..MaxLimit}]

\* `filters.get("exclude_tests", True)`
ExcludeTests(filters) == GetOr(filters.exclude_tests, TRUE)

\* the body of filter_and_denoise
FilterAndDenoise(results, filters) ==
    LET f1 == IF ExcludeTests(filters)
              THEN SelectSeq(results, LAMBDA r : ~IsTestFile(r.file))
              ELSE results
        f2 == IF filters.min_similarity.present
              THEN SelectSeq(f1, LAMBDA r :
                       GetOr(r.similarity, 0) >= filters.min_similarity.value)
              ELSE f1
        f3 == IF GetOr(filters.same_layer_only, FALSE) /\ filters.target.present
              THEN SelectSeq(f2, LAMBDA r :
                       GetLayer(r.file) = GetLayer(filters.target.value))
              ELSE f2
        f4 == IF filters.limit.present
              THEN SubSeq(f3, 1, Min(filters.limit.value, Len(f3)))
              ELSE f3
    IN  f4

NotFiltered == [done |-> FALSE, filtered |-> <<>>]

NoFilters == [exclude_tests |-> NotGiven(FALSE), min_similarity |-> NotGiven(0),
              same_layer_only |-> NotGiven(FALSE), target |-> NotGiven(""),
              limit |-> NotGiven(0)]

FilterUnused ==
    /\ filterInput = [results |-> <<>>, filters |-> NoFilters]
    /\ filterOutput = NotFiltered

\* the arguments a caller is about to pass
FilterArguments ==
    /\ filterInput \in [results : UNION {[1..n -> ResultSamples] : n \in 0..MaxResults},
                        filters : FilterOptions]
    /\ filterOutput = NotFiltered

\* ContextManager.filter_and_denoise(results, filters)
FilterAndDenoiseCall ==
    /\ ~filterOutput.done
    /\ filterOutput' = [done |-> TRUE,
                        filtered |-> FilterAndDenoise(filterInput.results,
                                                      filterInput.filters)]
    /\ UNCHANGED filterInput
    /\ UNCHANGED notFilterVars

\* ------------------------------------------------------------------------
\* Two callers of one CacheManager at once
\* ------------------------------------------------------------------------
\* CacheManager holds no lock: the statements of one caller's get, set or
\* invalidate interleave with the other caller's. Each action below is a run
\* of statements of one call that the interpreter may execute without
\* switching to the other caller; the memory-only configuration is modelled.
Callers == {"c1", "c2"}

\* a caller outside any call, with n calls left to make
IdleCaller(n) ==
    [pc |-> "idle", key |-> "-", value |-> NotFound, tmp |-> 0, victims |-> <<>>,
     left |-> n]

RaceUnused == callers = [c \in Callers |-> IdleCaller(0)]

\* the caller enters a call on key and moves to label
Enters(c, label, key, value) ==
    callers' = [callers EXCEPT ![c] =
                   [pc |-> label, key |-> key, value |-> value, tmp |-> 0,
                    victims |-> <<>>, left |-> callers[c].left - 1]]

\* the caller's call returns
Returns(c) == callers' = [callers EXCEPT ![c] = IdleCaller(callers[c].left)]

\* the caller's call enters and returns in one step
EntersAndReturns(c) == callers' = [callers EXCEPT ![c] = IdleCaller(callers[c].left - 1)]

\* the caller's call ends in an exception
Raises(c) == callers' = [callers EXCEPT ![c].pc = "raised"]

\* get: `if key in self._memory_cache:`
GetMembership(c, key) ==
    /\ callers[c].pc = "idle"
    /\ callers[c].left > 0
    /\ Enters(c, IF InMemory(memory_cache, key) THEN "get_read" ELSE "get_miss_load",
              key, NotFound)
    /\ gets' = gets + 1
    /\ UNCHANGED <<cache_dir, ttl_seconds, max_memory_items, memory_cache, disk, hits,
                   misses, now, last>>

\* get: `entry = self._memory_cache[key]` (KeyError when the key is gone),
\* the expiry test, and `del self._memory_cache[key]` or `entry.hit_count += 1`
GetRead(c) ==
    /\ callers[c].pc = "get_read"
    /\ IF ~InMemory(memory_cache, callers[c].key)
       THEN /\ Raises(c)
            /\ memory_cache' = memory_cache
       ELSE LET entry == MemEntry(memory_cache, callers[c].key) IN
            IF IsExpired(entry, now)
            THEN /\ memory_cache' = DictDel(memory_cache, callers[c].key)
                 /\ callers' = [callers EXCEPT ![c].pc = "get_miss_load"]
            ELSE /\ memory_cache' = DictSet(memory_cache,
                        [entry EXCEPT !.hit_count = entry.hit_count + 1])
                 /\ callers' = [callers EXCEPT ![c].pc = "get_hit_load",
                                               ![c].value = entry.value]
    /\ UNCHANGED <<cache_dir, ttl_seconds, max_memory_items, disk, hits, misses, gets,
                   now, last>>

\* get: `self._hits += 1` and `self._misses += 1` read the counter ...
GetCounterLoad(c) ==
    /\ callers[c].pc \in {"get_hit_load", "get_miss_load"}
    /\ callers' = [callers EXCEPT
          ![c].pc  = IF callers[c].pc = "get_hit_load" THEN "get_hit_store"
                     ELSE "get_miss_store",
          ![c].tmp = IF callers[c].pc = "get_hit_load" THEN hits ELSE misses]
    /\ UNCHANGED cacheVars

\* ... and store the value read plus one; get returns
GetCounterStore(c) ==
    /\ callers[c].pc \in {"get_hit_store", "get_miss_store"}
    /\ IF callers[c].pc = "get_hit_store"
       THEN hits' = callers[c].tmp + 1 /\ misses' = misses
       ELSE misses' = callers[c].tmp + 1 /\ hits' = hits
    /\ last' = [op |-> "get", key |-> callers[c].key, value |-> callers[c].value]
    /\ Returns(c)
    /\ UNCHANGED <<cache_dir, ttl_seconds, max_memory_items, memory_cache, disk, gets,
                   now>>

\* set: `self._memory_cache[key] = entry` and
\* `if len(self._memory_cache) > self.max_memory_items:`
SetStore(c, key, value) ==
    LET expires_at == IF ttl_seconds > 0 THEN now + ttl_seconds ELSE NoExpiry
        stored     == DictSet(memory_cache, CacheEntry(key, value, expires_at))
    IN  /\ callers[c].pc = "idle"
        /\ callers[c].left > 0
        /\ memory_cache' = stored
        /\ IF Len(stored) > max_memory_items
           THEN /\ Enters(c, "evict_sort", key, value)
                /\ last' = last
           ELSE /\ EntersAndReturns(c)
                /\ last' = [op |-> "set", key |-> key, value |-> value]
        /\ UNCHANGED <<cache_dir, ttl_seconds, max_memory_items, disk, hits, misses,
                       gets, now>>

\* _evict_lru: `sorted_entries = sorted(...)` and `num_to_remove`
EvictSort(c) ==
    LET sorted_entries == SortedByHitCount(memory_cache)
        num_to_remove  == Max(1, Len(sorted_entries) \div 10)
    IN  /\ callers[c].pc = "evict_sort"
        /\ callers' = [callers EXCEPT
              ![c].pc = "evict_del",
              ![c].victims = [i \in 1..Min(num_to_remove, Len(sorted_entries)) |->
                                 sorted_entries[i].key]]
        /\ UNCHANGED cacheVars

\* _evict_lru: the loop of `del self._memory_cache[key]` (KeyError at the
\* first victim that is gone); set returns
EvictDelete(c) ==
    LET victims == callers[c].victims
        gone    == {i \in 1..Len(victims) : ~InMemory(memory_cache, victims[i])}
        stop    == IF gone = {} THEN Len(victims) + 1
                   ELSE CHOOSE i \in gone : \A j \in gone : i <= j
        deleted == {victims[i] : i \in 1..(stop - 1)}
    IN  /\ callers[c].pc = "evict_del"
        /\ memory_cache' = SelectSeq(memory_cache, LAMBDA e : e.key \notin deleted)
        /\ IF gone = {}
           THEN /\ Returns(c)
                /\ last' = [op |-> "set", key |-> callers[c].key,
                            value |-> callers[c].value]
           ELSE /\ Raises(c)
                /\ last' = last
        /\ UNCHANGED <<cache_dir, ttl_seconds, max_memory_items, disk, hits, misses,
                       gets, now>>

\* invalidate: `if key in self._memory_cache:`
InvalidateMembership(c, key) ==
    /\ callers[c].pc = "idle"
    /\ callers[c].left > 0
    /\ IF InMemory(memory_cache, key)
       THEN /\ Enters(c, "invalidate_del", key, NotFound)
            /\ last' = last
       ELSE /\ EntersAndReturns(c)
            /\ last' = [op |-> "invalidate", key |-> key, value |-> NotFound]
    /\ UNCHANGED <<cache_dir, ttl_seconds, max_memory_items, memory_cache, disk, hits,
                   misses, gets, now>>

\* invalidate: `del self._memory_cache[key]` (KeyError when the key is gone)
InvalidateDelete(c) ==
    /\ callers[c].pc = "invalidate_del"
    /\ IF InMemory(memory_cache, callers[c].key)
       THEN /\ memory_cache' = DictDel(memory_cache, callers[c].key)
            /\ last' = [op |-> "invalidate", key |-> callers[c].key, value |-> NotFound]
            /\ Returns(c)
       ELSE /\ memory_cache' = memory_cache
            /\ last' = last
            /\ Raises(c)
    /\ UNCHANGED <<cache_dir, ttl_seconds, max_memory_items, disk, hits, misses, gets,
                   now>>

GetStep ==
    /\ \E c \in Callers :
          \/ \E key \in Keys : GetMembership(c, key)
          \/ GetRead(c)
          \/ GetCounterLoad(c)
          \/ GetCounterStore(c)
    /\ UNCHANGED notCacheRaceVars
SetStep ==
    /\ \E c \in Callers :
          \/ \E key \in Keys, value \in Values : SetStore(c, key, value)
          \/ EvictSort(c)
          \/ EvictDelete(c)
    /\ UNCHANGED notCacheRaceVars
InvalidateStep ==
    /\ \E c \in Callers :
          \/ \E key \in Keys : InvalidateMembership(c, key)
          \/ InvalidateDelete(c)
    /\ UNCHANGED notCacheRaceVars

\* ------------------------------------------------------------------------
\* Lazy initialisation of the agent
\* ------------------------------------------------------------------------
\* A FileInfo as _build_dependency_graphs and _build_symbol_index read it: its
\* path, its symbols (name and line_start) and the paths of the files it
\* depends on.
AnalyzedSymbol(name, line_start) == [name |-> name, line_start |-> line_start]
AnalyzedFile(path, symbols, dependencies) ==
    [path |-> path, symbols |-> symbols, dependencies |-> dependencies]

BuildPaths == {"a.py", "b.py"}
BuildNames == {"f", "g"}

\* what RepositoryAnalyzer.analyze returns for repo_path
BuildRepositories ==
    { << AnalyzedFile("a.py", sa, da),
         AnalyzedFile("b.py", <<AnalyzedSymbol("f", 1)>>, db) >> :
        sa \in {<<AnalyzedSymbol("f", 1)>>,
                <<AnalyzedSymbol("f", 1), AnalyzedSymbol("g", 5)>>},
        da \in {<<>>, <<"b.py">>},
        db \in {<<>>, <<"a.py">>} }

\* the CodeLocation built for one symbol
RECURSIVE Gcd(_, _)
Gcd(a, b) == IF b = 0 THEN a ELSE Gcd(b, a % b)

\* the float num / den, for den > 0: two such floats are equal exactly when
\* the fractions are, so the float is kept as the fraction in lowest terms
Ratio(num, den) == Fraction(num \div Gcd(num, den), den \div Gcd(num, den))

IndexedLocation(file_path, sym) ==
    [file_path |-> file_path, symbol_name |-> sym.name, line_start |-> sym.line_start,
     relevance_score |-> Ratio(1, 1)]

\* `if key not in d: d[key] = []` and `d[key].append(item)` for each pair
\* <<key, item>> in turn; a key that is not in the dict maps to <<>>
RECURSIVE AppendEach(_, _)
AppendEach(dict, pairs) ==
    IF pairs = <<>> THEN dict
    ELSE AppendEach([dict EXCEPT ![Head(pairs)[1]] = Append(@, Head(pairs)[2])],
                    Tail(pairs))

\* the <<dep_path, file_path>> pairs _build_dependency_graphs visits, in order
ReverseEdges(fs) ==
    Flatten([i \in 1..Len(fs) |->
        [j \in 1..Len(fs[i].dependencies) |-> <<fs[i].dependencies[j], fs[i].path>>]])

\* the <<symbol.name, location>> pairs _build_symbol_index visits, in order
IndexEntries(fs) ==
    Flatten([i \in 1..Len(fs) |->
        [j \in 1..Len(fs[i].symbols) |->
            <<fs[i].symbols[j].name, IndexedLocation(fs[i].path, fs[i].symbols[j])>>]])

\* EnhancedCodebaseAgent.__init__ over a repository whose analysis is repo;
\* analyses counts the RepositoryAnalyzer.analyze calls made
NewAgent(repo) ==
    [repo                     |-> repo,
     analysis_result          |-> [done |-> FALSE, files |-> <<>>],
     analyses                 |-> 0,
     dependency_graph         |-> [p \in BuildPaths |-> <<>>],
     reverse_dependency_graph |-> [p \in BuildPaths |-> <<>>],
     symbol_index             |-> [n \in BuildNames |-> <<>>],
     initialized              |-> FALSE]

Queriers == {"q1", "q2"}

NotLocated == [called |-> FALSE, op |-> "-", keywords |-> <<>>, result |-> <<>>]

BuildUnused ==
    /\ agent = NewAgent(<<>>)
    /\ queriers = [q \in Queriers |-> [pc |-> "idle", left |-> 0]]
    /\ located = NotLocated

\* a query operation calls _ensure_initialized: `if not self._initialized:`;
\* on an initialised agent the query reads the built structures and returns
EnsureInitialized(q) ==
    /\ queriers[q].pc = "idle"
    /\ queriers[q].left > 0
    /\ queriers' = [queriers EXCEPT
          ![q] = [pc   |-> IF agent.initialized THEN "idle" ELSE "analysis",
                  left |-> queriers[q].left - 1]]
    /\ agent' = agent

\* _perform_full_analysis
PerformFullAnalysis(q) ==
    /\ queriers[q].pc = "analysis"
    /\ agent' = [agent EXCEPT !.analysis_result = [done |-> TRUE, files |-> agent.repo],
                              !.analyses = agent.analyses + 1]
    /\ queriers' = [queriers EXCEPT ![q].pc = "graphs"]

\* _build_dependency_graphs
BuildDependencyGraphs(q) ==
    LET fs == agent.analysis_result.files IN
    /\ queriers[q].pc = "graphs"
    /\ IF ~agent.analysis_result.done
       THEN agent' = agent
       ELSE agent' = [agent EXCEPT
               !.dependency_graph =
                   [p \in BuildPaths |->
                       IF \E i \in 1..Len(fs) : fs[i].path = p
                       THEN fs[CHOOSE i \in 1..Len(fs) : fs[i].path = p].dependencies
                       ELSE agent.dependency_graph[p]],
               !.reverse_dependency_graph =
                   AppendEach(agent.reverse_dependency_graph, ReverseEdges(fs))]
    /\ queriers' = [queriers EXCEPT ![q].pc = "index"]

\* _build_symbol_index
BuildSymbolIndex(q) ==
    /\ queriers[q].pc = "index"
    /\ IF ~agent.analysis_result.done
       THEN agent' = agent
       ELSE agent' = [agent EXCEPT
               !.symbol_index = AppendEach(agent.symbol_index,
                                           IndexEntries(agent.analysis_result.files))]
    /\ queriers' = [queriers EXCEPT ![q].pc = "flag"]

\* `self._initialized = True`; the query then reads the built structures and
\* returns
SetInitialized(q) ==
    /\ queriers[q].pc = "flag"
    /\ agent' = [agent EXCEPT !.initialized = TRUE]
    /\ queriers' = [queriers EXCEPT ![q].pc = "idle"]

QueryStep ==
    /\ \E q \in Queriers :
          \/ EnsureInitialized(q)
          \/ PerformFullAnalysis(q)
          \/ BuildDependencyGraphs(q)
          \/ BuildSymbolIndex(q)
          \/ SetInitialized(q)
    /\ located' = located
    /\ UNCHANGED notBuildVars

\* the agent after one caller's _ensure_initialized
BuiltAgent(repo) ==
    [NewAgent(repo) EXCEPT
        !.analysis_result = [done |-> TRUE, files |-> repo],
        !.analyses = 1,
        !.dependency_graph =
            [p \in BuildPaths |->
                IF \E i \in 1..Len(repo) : repo[i].path = p
                THEN repo[CHOOSE i \in 1..Len(repo) : repo[i].path = p].dependencies
                ELSE <<>>],
        !.reverse_dependency_graph =
            AppendEach([p \in BuildPaths |-> <<>>], ReverseEdges(repo)),
        !.symbol_index = AppendEach([n \in BuildNames |-> <<>>], IndexEntries(repo)),
        !.initialized = TRUE]

\* `feature_description.lower().split()`: the words of the description
Words == {"f", "g", UnknownSymbol}
Descriptions == UNION {[1..n -> Words] : n \in 0..MaxWords}

\* `relevance`: the number of keywords found in the name
Relevance(keywords, name) ==
    Cardinality({k \in 1..Len(keywords) : KeywordIn(keywords[k], name)})

\* the index after the loop of locate_implementation: every location filed
\* under a name that holds a keyword is given `relevance / len(keywords)`
ScoredIndex(index, keywords) ==
    [n \in DOMAIN index |->
        IF Relevance(keywords, n) > 0
        THEN [i \in 1..Len(index[n]) |->
                [index[n][i] EXCEPT !.relevance_score =
                    Ratio(Relevance(keywords, n), Len(keywords))]]
        ELSE index[n]]

\* `locations`: the locations of the names that hold a keyword, in the order
\* of the index
MatchedLocations(index, names, keywords) ==
    Flatten([n \in 1..Len(names) |->
        IF Relevance(keywords, names[n]) > 0
        THEN ScoredIndex(index, keywords)[names[n]] ELSE <<>>])

\* `locations.sort(key=lambda x: x.relevance_score, reverse=True)`: a stable
\* sort
RECURSIVE SortedByRelevance(_)
SortedByRelevance(locations) ==
    IF locations = <<>> THEN <<>>
    ELSE LET above(a, b) == a.relevance_score.num * b.relevance_score.den
                              > b.relevance_score.num * a.relevance_score.den
             first == CHOOSE i \in 1..Len(locations) :
                         /\ \A j \in 1..Len(locations) : ~above(locations[j], locations[i])
                         /\ \A j \in 1..(i - 1) : above(locations[i], locations[j])
             rest  == [j \in 1..(Len(locations) - 1) |->
                         IF j < first THEN locations[j] ELSE locations[j + 1]]
         IN  <<locations[first]>> \o SortedByRelevance(rest)

\* EnhancedCodebaseAgent.locate_implementation on the built agent
LocateOnAgent(op, keywords) ==
    LET names  == IndexNames(agent.analysis_result.files)
        sorted == SortedByRelevance(MatchedLocations(agent.symbol_index, names, keywords))
    IN  /\ agent.initialized
        /\ agent' = [agent EXCEPT !.symbol_index = ScoredIndex(agent.symbol_index, keywords)]
        /\ located' = [called |-> TRUE, op |-> op, keywords |-> keywords,
                       result |-> SubSeq(sorted, 1, Min(LocateLimit, Len(sorted)))]
        /\ queriers' = queriers

LocateImplementationCall ==
    /\ \E keywords \in Descriptions : LocateOnAgent("locate_implementation", keywords)
    /\ UNCHANGED notBuildVars

\* EnhancedCodebaseAgent.find_similar_patterns
FindSimilarPatternsCall ==
    /\ \E keywords \in Descriptions : LocateOnAgent("find_similar_patterns", keywords)
    /\ UNCHANGED notBuildVars

\* ------------------------------------------------------------------------
\* CacheManager.generate_key
\* ------------------------------------------------------------------------
\* An argument value: its Python type and what str() and the f-string make
\* of it.  The int 1 and the str "1" are different values with the same text.
StrArg(text) == [type |-> "str", text |-> text]
IntArg(n) == [type |-> "int", text |-> ToString(n)]

KeyPrefixes  == {"p", "p:a"}
KeyArgValues == {StrArg("a"), StrArg("k=v"), StrArg("1"), IntArg(1)}

\* the keyword names, in the order sorted() puts them
KeywordNames == <<"k", "x">>
KeywordValues == [k |-> {StrArg("v")}, x |-> {StrArg("v"), IntArg(1)}]

\* **kwargs as the call passes them: pairs <<name, value>> of distinct names,
\* in the order written at the call site
KeywordArguments ==
    {<<>>}
    \cup {<<<<n, v>>>> : n \in {"k"}, v \in KeywordValues.k}
    \cup {<<<<n, v>>>> : n \in {"x"}, v \in KeywordValues.x}
    \cup {<<<<"k", vk>>, <<"x", vx>>>> : vk \in KeywordValues.k, vx \in KeywordValues.x}
    \cup {<<<<"x", vx>>, <<"k", vk>>>> : vk \in KeywordValues.k, vx \in KeywordValues.x}

\* one call generate_key(prefix, *args, **kwargs)
KeyCalls ==
    {[prefix |-> p, args |-> a, kwargs |-> kw] :
        p \in KeyPrefixes,
        a \in UNION {[1..n -> KeyArgValues] : n \in 0..MaxArgs},
        kw \in KeywordArguments}

\* `sorted(kwargs.items())`: the pairs in the order of their names
SortedItems(kwargs) ==
    Flatten([n \in 1..Len(KeywordNames) |->
        SelectSeq(kwargs, LAMBDA item : item[1] = KeywordNames[n])])

\* `":".join(key_parts)`
RECURSIVE Join(_)
Join(parts) ==
    IF parts = <<>> THEN ""
    ELSE IF Len(parts) = 1 THEN parts[1]
    ELSE parts[1] \o ":" \o Join(Tail(parts))

\* `hashlib.md5(key_str.encode()).hexdigest()`, taken to be injective
Md5(key_str) == <<"md5", key_str>>

\* CacheManager.generate_key
GenerateKey(prefix, args, kwargs) ==
    LET items     == SortedItems(kwargs)
        key_parts == <<prefix>>
                     \o [i \in 1..Len(args) |-> args[i].text]
                     \o [i \in 1..Len(items) |-> items[i][1] \o "=" \o items[i][2].text]
    IN  Md5(Join(key_parts))

NoKeys == <<>>

KeyUnused ==
    /\ keyCalls = <<>>
    /\ keyResults = NoKeys

KeyArguments ==
    /\ keyCalls \in KeyCalls \X KeyCalls
    /\ keyResults = NoKeys

GenerateKeyCall ==
    /\ keyResults = NoKeys
    /\ keyResults' = [i \in 1..2 |->
          GenerateKey(keyCalls[i].prefix, keyCalls[i].args, keyCalls[i].kwargs)]
    /\ keyCalls' = keyCalls
    /\ UNCHANGED notKeyVars

\* ------------------------------------------------------------------------
\* CodingAgentWorkflow
\* ------------------------------------------------------------------------
\* The analyzer, the generator, the context manager and the file system are
\* the workflow's collaborators: each of their calls either returns or raises
\* an Exception, and the model draws which.  The logger's calls do not raise.
\* self.cache is kept as what its get can answer for a requirement's key: the
\* result last stored under it, or None (a miss, whatever its cause).
Requirements == {"r1", "r2"}

\* WorkflowResult(status=WorkflowStatus.RUNNING, requirement=requirement);
\* execution_time is written last and never read
WorkflowResult(requirement) ==
    [status |-> "running", requirement |-> requirement, files_created |-> <<>>,
     files_modified |-> <<>>, tests_generated |-> <<>>, token_usage |-> 0,
     errors |-> <<>>, warnings |-> <<>>]

NoResult == [WorkflowResult("-") EXCEPT !.status = "none"]

Step(name, task) == [name |-> name, task |-> task]

\* the calls of implement_feature that may raise, in order, when
\* decompose_tasks returns n tasks
FeatureSteps(cache_enabled, n) ==
    (IF cache_enabled THEN <<Step("cache_get", 0)>> ELSE <<>>)
    \o <<Step("analyze_requirement", 0), Step("design_solution", 0),
         Step("decompose_tasks", 0)>>
    \o Flatten([i \in 1..n |->
          <<Step("implement_new_feature", i), Step("validate", i),
            Step("write_implementation", i), Step("generate_tests", i),
            Step("write_tests", i)>>])

\* the calls of modify_code that may raise, in order
ModifySteps ==
    <<Step("extract_precise_context", 0), Step("analyze_impact", 0),
      Step("modify_existing_code", 0)>>

\* what the workflow does to result once the step has returned
AfterStep(result, step, risk_level) ==
    CASE step.name = "analyze_requirement" ->
            [result EXCEPT !.token_usage = @ + 2000]
      [] step.name = "design_solution" ->
            [result EXCEPT !.token_usage = @ + 5000]
      [] step.name = "decompose_tasks" ->
            [result EXCEPT !.token_usage = @ + 3000]
      [] step.name = "validate" ->
            [result EXCEPT !.token_usage = @ + 4000]
      [] step.name = "write_implementation" ->
            [result EXCEPT !.files_created = Append(@, step.task)]
      [] step.name = "generate_tests" ->
            [result EXCEPT !.token_usage = @ + 3000]
      [] step.name = "write_tests" ->
            [result EXCEPT !.tests_generated = Append(@, step.task)]
      [] step.name = "analyze_impact" ->
            IF risk_level = "high"
            THEN [result EXCEPT !.warnings = Append(@, "High risk modification")]
            ELSE result
      [] step.name = "modify_existing_code" ->
            [result EXCEPT !.token_usage = @ + 6000,
                           !.files_modified = Append(@, "target")]
      [] OTHER -> result

\* `except Exception as e:`
StillRunning(result, step) ==
    [result EXCEPT !.errors = Append(@, step.name)]
Failed(result, step) ==
    [result EXCEPT !.status = "failed", !.errors = Append(@, step.name)]

\* `result.status = WorkflowStatus.COMPLETED`
Completed(result) == [result EXCEPT !.status = "completed"]

\* the body of the try: the steps run in order until the one at position
\* raises_at raises (none does when raises_at = 0)
RECURSIVE RunSteps(_, _, _, _, _)
RunSteps(result, steps, position, raises_at, risk_level) ==
    IF position > Len(steps) THEN Completed(result)
    ELSE IF position = raises_at THEN Failed(result, steps[position])
    ELSE RunSteps(AfterStep(result, steps[position], risk_level), steps,
                  position + 1, raises_at, risk_level)

NotReturned ==
    [called |-> FALSE, op |-> "-", raised |-> FALSE, from_cache |-> FALSE,
     result |-> NoResult]

WorkflowUnused ==
    /\ cache = [enabled |-> FALSE, entries |-> [r \in Requirements |-> NoResult]]
    /\ returned = NotReturned

\* CodingAgentWorkflow.__init__
WorkflowConstructed ==
    /\ cache \in {[enabled |-> e, entries |-> [r \in Requirements |-> NoResult]] :
                    e \in BOOLEAN}
    /\ returned = NotReturned

\* CodingAgentWorkflow.implement_feature; hit: self.cache.get finds the stored
\* result; n: the number of tasks; raises_at: the step that raises, 0 for none
ImplementFeature(requirement, hit, n, raises_at) ==
    LET steps  == FeatureSteps(cache.enabled, n)
        result == RunSteps(WorkflowResult(requirement), steps, 1, raises_at, "low")
    IN  /\ raises_at \in 0..Len(steps)
        /\ hit => /\ cache.enabled
                  /\ cache.entries[requirement] # NoResult
                  /\ raises_at = 0
                  /\ n = 0
        /\ IF hit
           THEN /\ returned' = [called |-> TRUE, op |-> "implement_feature",
                                raised |-> FALSE, from_cache |-> TRUE,
                                result |-> cache.entries[requirement]]
                /\ cache' = cache
           ELSE /\ returned' = [called |-> TRUE, op |-> "implement_feature",
                                raised |-> raises_at # 0, from_cache |-> FALSE,
                                result |-> result]
                /\ cache' = IF cache.enabled /\ raises_at = 0
                            THEN [cache EXCEPT !.entries[requirement] = result]
                            ELSE cache

\* CodingAgentWorkflow.modify_code
ModifyCode(modification, risk_level, raises_at) ==
    /\ raises_at \in 0..Len(ModifySteps)
    /\ returned' = [called |-> TRUE, op |-> "modify_code", raised |-> raises_at # 0,
                    from_cache |-> FALSE,
                    result |-> RunSteps(WorkflowResult(modification), ModifySteps, 1,
                                        raises_at, risk_level)]
    /\ cache' = cache

ImplementFeatureCall ==
    /\ \E requirement \in Requirements, hit \in BOOLEAN, n \in 0..MaxTasks,
          raises_at \in 0..Len(FeatureSteps(TRUE, MaxTasks)) :
          ImplementFeature(requirement, hit, n, raises_at)
    /\ UNCHANGED notWorkflowVars

ModifyCodeCall ==
    /\ \E modification \in Requirements, risk_level \in {"low", "medium", "high"},
          raises_at \in 0..Len(ModifySteps) :
          ModifyCode(modification, risk_level, raises_at)
    /\ UNCHANGED notWorkflowVars

\* ------------------------------------------------------------------------
\* Layer of a file path
\* ------------------------------------------------------------------------
\* A file path is the sequence of its segments, joined by "/".  The
\* keywords of the two classifiers hold no "/", so a keyword is a substring of
\* the path exactly when it is a substring of one of its segments.
PathSegments == {"src", "domain", "Domain", "models", "application", "services",
                 "adapters", "infrastructure", "api", "controller", "routes", "cli",
                 "commands"}

\* `file_path.lower()`, segment by segment
Lower(segment) == IF segment = "Domain" THEN "domain" ELSE segment

\* `keyword in segment` for the segments above
IsSubstring(keyword, segment) ==
    \/ keyword = segment
    \/ <<keyword, segment>> \in {<<"model", "models">>, <<"service", "services">>,
                                 <<"adapter", "adapters">>, <<"route", "routes">>,
                                 <<"command", "commands">>}

\* `keyword in path`
InPath(keyword, path) == \E i \in 1..Len(path) : IsSubstring(keyword, path[i])

\* ContextManager._get_layer, on the segments of the path
GetLayerOfPath(path) ==
    LET file_lower == [i \in 1..Len(path) |-> Lower(path[i])] IN
    IF InPath("domain", file_lower) \/ InPath("model", file_lower) THEN "domain"
    ELSE IF InPath("application", file_lower) \/ InPath("service", file_lower)
    THEN "application"
    ELSE IF InPath("adapter", file_lower) \/ InPath("infrastructure", file_lower)
    THEN "infrastructure"
    ELSE IF InPath("api", file_lower) \/ InPath("controller", file_lower) THEN "api"
    ELSE IF InPath("cli", file_lower) THEN "cli"
    ELSE "other"

\* the layer EnhancedCodebaseAgent._detect_layers files the path under
DetectLayer(path) ==
    IF InPath("domain", path) \/ InPath("model", path) THEN "domain"
    ELSE IF InPath("application", path) \/ InPath("service", path) THEN "application"
    ELSE IF InPath("adapter", path) \/ InPath("infrastructure", path)
    THEN "infrastructure"
    ELSE IF InPath("api", path) \/ InPath("controller", path) \/ InPath("route", path)
    THEN "api"
    ELSE IF InPath("cli", path) \/ InPath("command", path) THEN "cli"
    ELSE "other"

NoLayers == [done |-> FALSE, get_layer |-> "-", detect_layers |-> "-"]

LayerUnused ==
    /\ layerInput = <<>>
    /\ layerOutput = NoLayers

LayerArguments ==
    /\ layerInput \in UNION {[1..n -> PathSegments] : n \in 1..MaxSegments}
    /\ layerOutput = NoLayers

\* the path is classified by filter_and_denoise and by understand_architecture
ClassifyCall ==
    /\ ~layerOutput.done
    /\ layerOutput' = [done |-> TRUE, get_layer |-> GetLayerOfPath(layerInput),
                       detect_layers |-> DetectLayer(layerInput)]
    /\ layerInput' = layerInput
    /\ UNCHANGED notLayerVars

\* ------------------------------------------------------------------------
\* ContextManager.analyze_impact
\* ------------------------------------------------------------------------
\* One-file repositories with a hub H and n strands of callers above it, each
\* strand a chain of len symbols: the first symbol of a strand calls the hub,
\* every further one calls the symbol before it.
StrandsRepo(n, len) ==
    << [path |-> "s.py",
        symbols |-> [i \in 1..(n * len + 1) |->
                        IF i = 1 THEN Sym(1, "H") ELSE Sym(i, "S" \o ToString(i))],
        function_dependencies |-> [i \in 1..(n * len) |->
                        IF (i - 1) % len = 0 THEN Dep(i + 1, 1) ELSE Dep(i + 1, i)]] >>

ImpactRepositories ==
    Repositories \cup {StrandsRepo(n, len) : n \in 1..MaxFan, len \in 1..MaxStrand}

\* the CodeLocation analyze_impact makes of a call chain node
LocationOfNode(node) == CodeLocation(node.file_path, node.symbol_name)

\* `path[1]` of every upstream path with a caller
DirectCallers(upstream) ==
    Flatten([i \in 1..Len(upstream) |->
                IF Len(upstream[i]) > 1 THEN <<LocationOfNode(upstream[i][2])>>
                ELSE <<>>])

\* `path[2:]` of every upstream path with an indirect caller
IndirectCallers(upstream) ==
    Flatten([i \in 1..Len(upstream) |->
                IF Len(upstream[i]) > 2
                THEN [j \in 1..(Len(upstream[i]) - 2) |-> LocationOfNode(upstream[i][j + 2])]
                ELSE <<>>])

\* ContextManager.analyze_impact(change); the affected test files are looked
\* up on disk from the target file's name and feed nothing else.
AnalyzeImpact(fs, target_symbol, change_type) ==
    LET call_chain       == CallChainOf(fs, target_symbol, "upstream", 1)
        extended_chain   == CallChainOf(fs, target_symbol, "upstream", 3)
        direct_callers   == DirectCallers(call_chain.upstream)
        indirect_callers == IndirectCallers(extended_chain.upstream)
    IN  [called           |-> TRUE,
         target_symbol    |-> target_symbol,
         change_type      |-> change_type,
         direct_callers   |-> direct_callers,
         indirect_callers |-> indirect_callers,
         risk_level       |-> AssessRiskLevel(change_type, Len(direct_callers),
                                              Len(indirect_callers)),
         breaking_changes |-> IF change_type \in {"signature_change", "deletion"}
                              THEN 1 ELSE 0]

\* no analyze_impact call has been made
NoImpact == [called |-> FALSE, target_symbol |-> "-", change_type |-> "-",
             direct_callers |-> <<>>, indirect_callers |-> <<>>,
             risk_level |-> "low", breaking_changes |-> 0]

ImpactUnused == impact = NoImpact

\* one analyze_impact call; the call keeps no state, so a behaviour makes one
AnalyzeImpactCall ==
    /\ pc = "idle"
    /\ ~impact.called
    /\ \E target_symbol \in NamesOf(files) \cup {UnknownSymbol},
          change_type \in ChangeTypes :
          impact' = AnalyzeImpact(files, target_symbol, change_type)
    /\ UNCHANGED notImpactVars

\* ------------------------------------------------------------------------
\* Specifications
\* ------------------------------------------------------------------------
\* the cache alone
InitCache == CacheConstructed /\ TraceIdle /\ ContextUnused /\ RiskUnused /\ RankUnused /\ FilterUnused
             /\ RaceUnused /\ BuildUnused /\ KeyUnused /\ ImpactUnused /\ LayerUnused /\ WorkflowUnused
NextCache == GetCall \/ SetCall \/ InvalidateCall \/ ClearCall \/ ClockTick
SpecCache == InitCache /\ [][NextCache]_vars

\* the cache over a disk that may fail
NextCacheIO == GetAnyCall \/ SetAnyCall \/ InvalidateCall \/ ClearCall \/ ClockTick
SpecCacheIO == InitCache /\ [][NextCacheIO]_vars

\* two callers of one memory-only cache, each making MaxCallsEach calls, over
\* a span of time too short for an entry to expire
InitRace ==
    /\ CacheConstructed
    /\ cache_dir = FALSE
    /\ callers = [c \in Callers |-> IdleCaller(MaxCallsEach)]
    /\ TraceIdle /\ ContextUnused /\ RiskUnused /\ RankUnused /\ FilterUnused
    /\ BuildUnused /\ KeyUnused /\ ImpactUnused /\ LayerUnused /\ WorkflowUnused
NextRace == GetStep \/ SetStep \/ InvalidateStep
SpecRace == InitRace /\ [][NextRace]_vars

\* a set on a full memory-only cache of up to MaxEntries entries: entry i was
\* stored under key e<i> and has been read (a * i + b) % 3 times
FullMemory(n, a, b) ==
    [i \in 1..n |->
        [CacheEntry("e" \o ToString(i), "v1", MaxTTL) EXCEPT
            !.hit_count = (a * i + b) % 3]]

RECURSIVE SumHitCounts(_)
SumHitCounts(mem) ==
    IF mem = <<>> THEN 0 ELSE Head(mem).hit_count + SumHitCounts(Tail(mem))

CacheFull ==
    /\ cache_dir = FALSE
    /\ ttl_seconds = MaxTTL
    /\ memory_cache \in {FullMemory(n, a, b) : n \in 1..MaxEntries, a \in 0..2, b \in 0..2}
    /\ max_memory_items = Len(memory_cache)
    /\ disk = [k \in Keys |-> AbsentFile]
    /\ hits = SumHitCounts(memory_cache)
    /\ misses = 0
    /\ gets = SumHitCounts(memory_cache)
    /\ now = 0
    /\ last = [op |-> "init", key |-> "-", value |-> NotFound]

\* one set, of a new key or of a key the cache holds
SetOnFullCall ==
    /\ last.op = "init"
    /\ \E key \in Keys \cup {"e1"} : Set(key, "v2", FALSE, 0, "ok")
    /\ UNCHANGED notCacheVars

InitEvict ==
    /\ CacheFull
    /\ TraceIdle /\ ContextUnused /\ RiskUnused /\ RankUnused /\ FilterUnused
    /\ RaceUnused /\ BuildUnused /\ KeyUnused /\ ImpactUnused /\ LayerUnused /\ WorkflowUnused
NextEvict == SetOnFullCall
SpecEvict == InitEvict /\ [][NextEvict]_vars

\* the cache of a model that makes no cache call
CacheUnused ==
    /\ cache_dir = FALSE
    /\ ttl_seconds = MaxTTL
    /\ max_memory_items = MaxItems
    /\ memory_cache = <<>>
    /\ disk = [k \in Keys |-> AbsentFile]
    /\ hits = 0
    /\ misses = 0
    /\ gets = 0
    /\ now = 0
    /\ last = [op |-> "init", key |-> "-", value |-> NotFound]

\* two callers querying one freshly constructed agent
InitBuild ==
    /\ agent \in {NewAgent(repo) : repo \in BuildRepositories}
    /\ queriers = [q \in Queriers |-> [pc |-> "idle", left |-> MaxQueries]]
    /\ located = NotLocated
    /\ CacheUnused /\ TraceIdle /\ ContextUnused /\ RiskUnused /\ RankUnused
    /\ FilterUnused /\ RaceUnused /\ KeyUnused /\ ImpactUnused /\ LayerUnused /\ WorkflowUnused
NextBuild == QueryStep
SpecBuild == InitBuild /\ [][NextBuild]_vars

\* analyze_impact calls on a context manager over one repository
InitImpact ==
    /\ files \in ImpactRepositories
    /\ symbol = "-" /\ direction = "-" /\ max_depth = 0 /\ pc = "idle"
    /\ queue = <<>> /\ paths = <<>> /\ visited = {} /\ chain = NoChain /\ placed = <<>>
    /\ ImpactUnused
    /\ CacheUnused /\ ContextUnused /\ RiskUnused /\ RankUnused /\ FilterUnused
    /\ RaceUnused /\ BuildUnused /\ LayerUnused /\ WorkflowUnused /\ KeyUnused
NextImpact == AnalyzeImpactCall
SpecImpact == InitImpact /\ [][NextImpact]_vars

\* one file path given to both layer classifiers
InitLayer ==
    /\ LayerArguments
    /\ CacheUnused /\ TraceIdle /\ ContextUnused /\ RiskUnused /\ RankUnused
    /\ FilterUnused /\ RaceUnused /\ BuildUnused /\ KeyUnused /\ ImpactUnused /\ WorkflowUnused
NextLayer == ClassifyCall
SpecLayer == InitLayer /\ [][NextLayer]_vars

\* implement_feature and modify_code calls on one workflow
InitWorkflow ==
    /\ WorkflowConstructed
    /\ CacheUnused /\ TraceIdle /\ ContextUnused /\ RiskUnused /\ RankUnused
    /\ FilterUnused /\ RaceUnused /\ BuildUnused /\ KeyUnused /\ ImpactUnused /\ LayerUnused
NextWorkflow == ImplementFeatureCall \/ ModifyCodeCall
SpecWorkflow == InitWorkflow /\ [][NextWorkflow]_vars

\* two generate_key calls
InitKey ==
    /\ KeyArguments
    /\ CacheUnused /\ TraceIdle /\ ContextUnused /\ RiskUnused /\ RankUnused
    /\ FilterUnused /\ RaceUnused /\ BuildUnused /\ ImpactUnused /\ LayerUnused /\ WorkflowUnused
NextKey == GenerateKeyCall
SpecKey == InitKey /\ [][NextKey]_vars

\* locate_implementation and find_similar_patterns on an initialised agent
InitQuery ==
    /\ agent \in {BuiltAgent(repo) : repo \in BuildRepositories}
    /\ queriers = [q \in Queriers |-> [pc |-> "idle", left |-> 0]]
    /\ located = NotLocated
    /\ CacheUnused /\ TraceIdle /\ ContextUnused /\ RiskUnused /\ RankUnused
    /\ FilterUnused /\ RaceUnused /\ KeyUnused /\ ImpactUnused /\ LayerUnused /\ WorkflowUnused
NextQuery == LocateImplementationCall \/ FindSimilarPatternsCall
SpecQuery == InitQuery /\ [][NextQuery]_vars

\* one get_call_chain call on an agent over any of the repositories
InitTrace == AgentConstructed /\ CacheUnused /\ ContextUnused /\ RiskUnused /\ RankUnused /\ FilterUnused
             /\ RaceUnused /\ BuildUnused /\ KeyUnused /\ ImpactUnused /\ LayerUnused /\ WorkflowUnused
NextTrace == \/ GetCallChainCall
             \/ UpstreamStep
             \/ DownstreamStep
             \/ UpstreamReturnStep
             \/ DownstreamReturnStep
SpecTrace == InitTrace /\ [][NextTrace]_vars

\* extract_precise_context calls on a context manager over one repository
ContextRepositories ==
    {SmallRepo(edges) : edges \in {{}, {<<1, 2>>, <<2, 1>>}, {<<1, 2>>, <<2, 3>>}}}

ContextManagerConstructed ==
    /\ files \in ContextRepositories
    /\ symbol = "-"
    /\ direction = "-"
    /\ max_depth = 0
    /\ pc = "idle"
    /\ queue = <<>>
    /\ paths = <<>>
    /\ visited = {}
    /\ chain = NoChain
    /\ placed = <<>>
    /\ ctx = NoCall
    /\ ctxPrev = NoCall
    /\ calls = 0

InitContext == ContextManagerConstructed /\ CacheUnused /\ RiskUnused /\ RankUnused /\ FilterUnused
               /\ RaceUnused /\ BuildUnused /\ KeyUnused /\ ImpactUnused /\ LayerUnused /\ WorkflowUnused
NextContext == ExtractPreciseContextCall
SpecContext == InitContext /\ [][NextContext]_vars

\* queries about names that are not in the symbol index
UnknownNames(fs) == {UnknownSymbol, "H"} \ NamesOf(fs)

GetCallChainUnknownCall ==
    /\ \E name \in UnknownNames(files), dir \in Directions, depthLimit \in 0..MaxDepth :
          GetCallChain(name, dir, depthLimit)
    /\ UNCHANGED notTraceVars

ExtractUnknownCall ==
    /\ \E target \in UnknownNames(files), token_budget \in Budgets :
          ExtractPreciseContext(target, token_budget)
    /\ UNCHANGED notContextVars

UnknownRepositories == ContextRepositories \cup {<<>>, ChainRepo, FanRepo(1, "out")}

InitUnknown ==
    /\ files \in UnknownRepositories
    /\ symbol = "-"
    /\ direction = "-"
    /\ max_depth = 0
    /\ pc = "idle"
    /\ queue = <<>>
    /\ paths = <<>>
    /\ visited = {}
    /\ chain = NoChain
    /\ placed = <<>>
    /\ ContextUnused /\ CacheUnused /\ RiskUnused /\ RankUnused /\ FilterUnused
    /\ RaceUnused /\ BuildUnused /\ KeyUnused /\ ImpactUnused /\ LayerUnused /\ WorkflowUnused
NextUnknown == GetCallChainUnknownCall \/ ExtractUnknownCall
SpecUnknown == InitUnknown /\ [][NextUnknown]_vars

\* _assess_risk_level calls on a context manager whose other parts stay idle
InitRisk == RiskUnused /\ CacheUnused /\ TraceIdle /\ ContextUnused /\ RankUnused /\ FilterUnused
            /\ RaceUnused /\ BuildUnused /\ KeyUnused /\ ImpactUnused /\ LayerUnused /\ WorkflowUnused
NextRisk == AssessRiskLevelCall
SpecRisk == InitRisk /\ [][NextRisk]_vars

\* one rank_context_relevance call on any list of sample contexts
InitRank == RankArguments /\ CacheUnused /\ TraceIdle /\ ContextUnused /\ RiskUnused
            /\ FilterUnused /\ RaceUnused /\ BuildUnused /\ KeyUnused /\ ImpactUnused /\ LayerUnused /\ WorkflowUnused
NextRank == RankContextRelevanceCall
SpecRank == InitRank /\ [][NextRank]_vars

\* one filter_and_denoise call on any list of sample results
InitFilter == FilterArguments /\ CacheUnused /\ TraceIdle /\ ContextUnused /\ RiskUnused
              /\ RankUnused /\ RaceUnused /\ BuildUnused /\ KeyUnused /\ ImpactUnused /\ LayerUnused /\ WorkflowUnused
NextFilter == FilterAndDenoiseCall
SpecFilter == InitFilter /\ [][NextFilter]_vars

\* ------------------------------------------------------------------------
\* Claims about CacheManager (checked under SpecCache)
\* ------------------------------------------------------------------------
\* the step is a call get(key)
IsGetOf(key) ==
    /\ hits' + misses' = hits + misses + 1
    /\ last'.op = "get"
    /\ last'.key = key

\* C1 (as claimed): a get(k) issued immediately after set(k, v) returns v,
\* whatever the cache held before and whether or not it was full.
CacheRoundTrip ==
    [][\A k \in Keys :
          (last.op = "set" /\ last.key = k /\ IsGetOf(k)) => last'.value = last.value]_vars

\* C2 (as claimed): once an operation has returned, the in-memory map holds at
\* most max_memory_items entries.
EvictionBound == Len(memory_cache) <= max_memory_items

\* the entry's ttl has elapsed at time t, as the claim counts it: an entry
\* stored with ttl 0 has no expires_at, and 0 seconds have always elapsed
TtlElapsed(entry, t) == entry.expires_at = NoExpiry \/ t >= entry.expires_at

\* the tier get(key) reads in the current state
ReadsMemory(key) == InMemory(memory_cache, key)
ReadsDisk(key)   == ~InMemory(memory_cache, key) /\ cache_dir /\ disk[key].state = "ok"

\* get(key) answered not-found, counted one miss and no hit
AnsweredMiss ==
    /\ last'.value = NotFound
    /\ misses' = misses + 1
    /\ hits' = hits

\* C3 (as claimed): once the ttl of the entry stored for k has elapsed, get(k)
\* returns not-found, counts a miss and removes the entry from the tier read.
TtlExpiryOnceElapsed ==
    [][\A k \in Keys :
          /\ (IsGetOf(k) /\ ReadsMemory(k) /\ TtlElapsed(MemEntry(memory_cache, k), now))
                => (AnsweredMiss /\ ~InMemory(memory_cache', k))
          /\ (IsGetOf(k) /\ ReadsDisk(k) /\ TtlElapsed(disk[k].entry, now))
                => (AnsweredMiss /\ disk'[k].state = "absent")]_vars

\* C3 (amended): an entry stored with ttl > 0 is expired once MORE than ttl
\* seconds have elapsed (now > expires_at); a get(k) that reads an expired entry
\* from memory, or from disk when k is not in memory, returns not-found, counts
\* exactly one miss and removes the entry from the tier it was read from.
TtlExpiryStrict ==
    [][\A k \in Keys :
          /\ (/\ IsGetOf(k) /\ ReadsMemory(k)
              /\ MemEntry(memory_cache, k).expires_at # NoExpiry
              /\ now > MemEntry(memory_cache, k).expires_at)
                => (AnsweredMiss /\ ~InMemory(memory_cache', k))
          /\ (/\ IsGetOf(k) /\ ReadsDisk(k)
              /\ disk[k].entry.expires_at # NoExpiry
              /\ now > disk[k].entry.expires_at)
                => (/\ AnsweredMiss
                    /\ disk'[k].state = "absent"
                    /\ ~InMemory(memory_cache', k))]_vars

\* C3 witness: a get has just purged an expired entry from memory (the key is
\* gone from memory, the answer was not-found, and the copy of the same entry
\* on disk, which get did not read, is still there and past its expiry).
TtlExpiryWitness ==
    /\ last.op = "get"
    /\ last.value = NotFound
    /\ misses > 0
    /\ cache_dir
    /\ ~InMemory(memory_cache, last.key)
    /\ disk[last.key].state = "ok"
    /\ disk[last.key].entry.expires_at # NoExpiry
    /\ now > disk[last.key].entry.expires_at

\* ------------------------------------------------------------------------
\* Claims about get_call_chain (checked under SpecTrace / FairSpecTrace)
\* ------------------------------------------------------------------------
\* name1 calls name2 according to _find_callees
Calls(fs, name1, name2) ==
    \E k \in 1..Len(FindCallees(fs, name1)) : FindCallees(fs, name1)[k].symbol_name = name2

\* every "name:file" key of the analysis result
KeysOfRepo(fs) ==
    UNION {{<<fs[i].symbols[j].name, fs[i].path>> : j \in 1..Len(fs[i].symbols)} :
              i \in 1..Len(fs)}

\* what is left for the running trace to do: the keys it has not marked
\* visited (each can still be queued once) and the items waiting in the queue
TraceVariant == 2 * Cardinality(KeysOfRepo(files) \ visited) + Len(queue)

\* C4: get_call_chain terminates on every repository, cyclic or not, for every
\* symbol, direction and max_depth: every iteration of a trace's while loop
\* takes an item off the queue and strictly decreases TraceVariant, a natural
\* number, so the loop ends after finitely many iterations whatever max_depth
\* is, with finitely many paths, each finite.
TraceTerminates ==
    [][(pc \in {"upstream", "downstream"} /\ pc' = pc)
          => (/\ TraceVariant' < TraceVariant
              /\ TraceVariant' >= 0
              /\ queue' # queue)]_vars

\* C4 witness: a "both" trace of A at the largest depth has returned on a
\* repository where A calls B and B calls A, or where A calls itself.
TraceTerminatesWitness ==
    /\ pc = "done"
    /\ symbol = "A"
    /\ direction = "both"
    /\ max_depth = MaxDepth
    /\ \/ Calls(files, "A", "B") /\ Calls(files, "B", "A")
       \/ Calls(files, "A", "A")
    /\ chain.downstream # <<>>

\* C5 (as claimed): within one trace no (symbol, file) pair gets a node more
\* than once, and the target's pair is on no path after position 0.
TracePaths ==
    {queue[i].path : i \in 1..Len(queue)} \cup {paths[i] : i \in 1..Len(paths)}
    \cup {chain.upstream[i] : i \in 1..Len(chain.upstream)}
    \cup {chain.downstream[i] : i \in 1..Len(chain.downstream)}

NoRevisit ==
    /\ \A i, j \in 1..Len(placed) : i # j => placed[i] # placed[j]
    /\ \A p \in TracePaths : \A k \in 2..Len(p) : KeyOf(p[k]) # KeyOf(p[1])

\* C6: the returned CallChain has at most 10 upstream and at most 10
\* downstream paths.
PathCap ==
    /\ Len(chain.upstream) <= 10
    /\ Len(chain.downstream) <= 10

\* C6 witness: a trace that collected more than 10 paths has returned exactly 10.
PathCapWitness ==
    /\ pc = "done"
    /\ Len(paths) > 10
    /\ \/ direction = "upstream" /\ Len(chain.upstream) = 10
       \/ direction = "downstream" /\ Len(chain.downstream) = 10

\* ------------------------------------------------------------------------
\* Layered context loading
\* ------------------------------------------------------------------------
IsPrefixOf(s, t) == Len(s) <= Len(t) /\ \A i \in 1..Len(s) : s[i] = t[i]

\* the fixed cost of a layer
CostOf(layer) ==
    CASE layer = "core"         -> 1000
      [] layer = "dependencies" -> 2000
      [] layer = "call_chain"   -> 3000
      [] layer = "patterns"     -> 4000

RECURSIVE SumCosts(_)
SumCosts(layers) ==
    IF layers = <<>> THEN 0 ELSE CostOf(Head(layers)) + SumCosts(Tail(layers))

\* C7: the layers_included of every extract_precise_context result is a
\* prefix of [CORE, DEPENDENCIES, CALL_CHAIN, PATTERNS]: no layer is included
\* without all of its predecessors.
LayerPrefix ==
    ctx.called =>
        IsPrefixOf(ctx.result.layers_included,
                   <<"core", "dependencies", "call_chain", "patterns">>)

\* a call whose budget admits CALL_CHAIN after DEPENDENCIES and stops there
LayerPrefixWitness ==
    /\ ctx.called
    /\ ctx.result.layers_included = <<"core", "dependencies", "call_chain">>

\* C8: for one resolvable target, the layers loaded under the smaller of two
\* budgets are a prefix of the layers loaded under the larger one.
LayerMonotonic ==
    (/\ ctxPrev.called
     /\ ctx.called
     /\ ctx.target = ctxPrev.target
     /\ InSymbolIndex(files, ctx.target))
    => /\ ctxPrev.token_budget < ctx.token_budget
            => IsPrefixOf(ctxPrev.result.layers_included, ctx.result.layers_included)
       /\ ctx.token_budget < ctxPrev.token_budget
            => IsPrefixOf(ctx.result.layers_included, ctxPrev.result.layers_included)

\* two calls on one resolvable target, the second with the larger budget and
\* strictly more layers
LayerMonotonicWitness ==
    /\ ctxPrev.called
    /\ ctx.called
    /\ ctx.target = ctxPrev.target
    /\ InSymbolIndex(files, ctx.target)
    /\ ctxPrev.token_budget < ctx.token_budget
    /\ Len(ctxPrev.result.layers_included) = 2
    /\ Len(ctx.result.layers_included) = 4

\* the budget left before the k-th included layer is loaded
RemainingBefore(call, k) ==
    call.token_budget - SumCosts(SubSeq(call.result.layers_included, 1, k - 1))

PatternsRemainder ==
    (/\ ctx.called
     /\ IsPrefixOf(<<"core", "dependencies", "call_chain">>, ctx.result.layers_included)
     /\ ctx.token_budget - 6000 > 0)
    => /\ ctx.result.layers_included = <<"core", "dependencies", "call_chain", "patterns">>
       /\ ctx.result.token_estimate = 6000 + Min(ctx.token_budget - 6000, 4000)

\* ------------------------------------------------------------------------
\* Risk assessment
\* ------------------------------------------------------------------------
\* low < medium < high
RiskRank(level) == CASE level = "low" -> 0 [] level = "medium" -> 1 [] level = "high" -> 2

\* C11: the risk level of every call follows the table: for signature_change
\* and deletion high when direct > 10 or indirect > 20, else medium when
\* direct > 3 or indirect > 10, else low; for implementation_change medium
\* when direct > 20, else low; low for every other change type.
RiskTable ==
    risk.called =>
        LET d == risk.direct_callers
            i == risk.indirect_callers
        IN  /\ risk.change_type \in {"signature_change", "deletion"}
                => /\ (d > 10 \/ i > 20) => risk.level = "high"
                   /\ (~(d > 10 \/ i > 20) /\ (d > 3 \/ i > 10)) => risk.level = "medium"
                   /\ (d <= 3 /\ i <= 10) => risk.level = "low"
            /\ risk.change_type = "implementation_change"
                => /\ d > 20 => risk.level = "medium"
                   /\ d <= 20 => risk.level = "low"
            /\ risk.change_type \notin {"signature_change", "deletion",
                                        "implementation_change"}
                => risk.level = "low"

\* a deletion right at the thresholds (direct = 10, indirect = 20), still medium
RiskTableWitness ==
    /\ risk.called
    /\ risk.change_type = "deletion"
    /\ risk.direct_callers = 10
    /\ risk.indirect_callers = 20
    /\ risk.level = "medium"

\* C12: for one change type, a call with no fewer direct and no fewer
\* indirect callers than the call before it returns no lower a risk level.
RiskOrdering ==
    [][(/\ risk.called
        /\ risk'.change_type = risk.change_type
        /\ risk.direct_callers <= risk'.direct_callers
        /\ risk.indirect_callers <= risk'.indirect_callers)
          => RiskRank(risk.level) <= RiskRank(risk'.level)]_vars

\* an implementation_change assessed above its only threshold
RiskOrderingWitness ==
    /\ risk.called
    /\ risk.change_type = "implementation_change"
    /\ risk.direct_callers = 21
    /\ risk.level = "medium"

\* ------------------------------------------------------------------------
\* Relevance ranking
\* ------------------------------------------------------------------------
Reorderings(n) == {p \in [1..n -> 1..n] : \A k, l \in 1..n : p[k] = p[l] => k = l}

CrossFileCall ==
    /\ pc = "done"
    /\ files = ChainRepo
    /\ symbol = "bar"
    /\ direction = "both"
    /\ max_depth = 2

\* C14: on the three-file repository get_call_chain("bar", "both", 2)
\* returns the upstream path [bar@b.py, foo@a.py] with entry point foo and
\* the downstream path [bar@b.py, baz@c.py] with leaf node baz.
CrossFileTrace ==
    CrossFileCall =>
        /\ chain.upstream = << <<CallChainNode("bar", "b.py", 0),
                                 CallChainNode("foo", "a.py", 1)>> >>
        /\ chain.entry_points = <<CallChainNode("foo", "a.py", 1)>>
        /\ chain.downstream = << <<CallChainNode("bar", "b.py", 0),
                                   CallChainNode("baz", "c.py", 1)>> >>
        /\ chain.leaf_nodes = <<CallChainNode("baz", "c.py", 1)>>

\* ------------------------------------------------------------------------
\* Unknown targets
\* ------------------------------------------------------------------------
\* C15: for a name that is not in the symbol index, get_call_chain returns,
\* for every direction and max_depth, a CallChain whose target has file_path
\* "not_found" and whose upstream, downstream, entry_points and leaf_nodes
\* are empty, and extract_precise_context returns empty target_code, empty
\* layers_included and token_estimate 0.
UnknownTarget ==
    /\ (pc = "done" /\ symbol \notin NamesOf(files))
          => /\ chain.target.symbol_name = symbol
             /\ chain.target.file_path = "not_found"
             /\ chain.upstream = <<>>
             /\ chain.downstream = <<>>
             /\ chain.entry_points = <<>>
             /\ chain.leaf_nodes = <<>>
    /\ (ctx.called /\ ctx.target \notin NamesOf(files))
          => /\ ctx.result.target_code = <<>>
             /\ ctx.result.layers_included = <<>>
             /\ ctx.result.token_estimate = 0

\* both calls made on an unknown name of a repository that has symbols, the
\* context call with a budget that would pay for all four layers
UnknownTargetWitness ==
    /\ files # <<>>
    /\ pc = "done"
    /\ symbol \notin NamesOf(files)
    /\ direction = "both"
    /\ max_depth > 0
    /\ ctx.called
    /\ ctx.target \notin NamesOf(files)
    /\ ctx.token_budget >= 10000

\* ------------------------------------------------------------------------
\* Filtering
\* ------------------------------------------------------------------------
\* C16: every option of filter_and_denoise filters only when it is present:
\* with an empty options map the result is the input list, test files
\* included, and without exclude_tests no entry is dropped for being a test
\* file.
FilterOptionAbsence ==
    filterOutput.done =>
        /\ filterInput.filters = NoFilters
              => filterOutput.filtered = filterInput.results
        /\ ~filterInput.filters.exclude_tests.present
              => filterOutput.filtered =
                    FilterAndDenoise(filterInput.results,
                        [filterInput.filters EXCEPT !.exclude_tests = Given(FALSE)])

\* ------------------------------------------------------------------------
\* Cache statistics
\* ------------------------------------------------------------------------
\* C17: every get call increments exactly one of the two counters, the hit
\* counter when it returns a value and the miss counter when it returns
\* not-found (absent, expired or unreadable); set, invalidate, clear and the
\* passing of time change neither; so hits + misses = total_requests = the
\* number of get calls, and hit_rate = hits / total_requests, 0 when there
\* were no gets.
CacheStatistics ==
    [][/\ IF last'.op = "get"
          THEN /\ gets' = gets + 1
               /\ \/ (hits' = hits + 1 /\ misses' = misses /\ last'.value # NotFound)
                  \/ (hits' = hits /\ misses' = misses + 1 /\ last'.value = NotFound)
          ELSE /\ gets' = gets
               /\ hits' = hits
               /\ misses' = misses
       /\ hits' + misses' = gets'
       /\ GetStats'.hits = hits'
       /\ GetStats'.misses = misses'
       /\ GetStats'.total_requests = gets'
       /\ GetStats'.hit_rate = IF gets' = 0 THEN Fraction(0, 1)
                               ELSE Fraction(hits', gets')]_vars

\* one get served from memory and one get that found an unreadable file,
\* then a set
CacheStatisticsWitness ==
    /\ hits = 1
    /\ misses = 1
    /\ last.op = "set"
    /\ cache_dir
    /\ \E k \in Keys : disk[k].state = "corrupt"

\* ------------------------------------------------------------------------
\* Removal from the cache
\* ------------------------------------------------------------------------
\* no tier holds anything for key
Gone(key) ==
    /\ ~InMemory(memory_cache, key)
    /\ cache_dir => disk[key].state = "absent"

\* C18: invalidate(k) leaves nothing for k in either tier and clear()
\* nothing for any key; a key with nothing in either tier stays so through
\* every call but a set of that key, and every get of it returns not-found:
\* a removed key is not-found until it is set again, also with the
\* persistent tier.
RemovalEffective ==
    [][\A k \in Keys :
          /\ (last'.op = "invalidate" /\ last'.key = k) => Gone(k)'
          /\ last'.op = "clear" => Gone(k)'
          /\ (Gone(k) /\ ~(last'.op = "set" /\ last'.key = k))
                => /\ Gone(k)'
                   /\ IsGetOf(k) => last'.value = NotFound]_vars

\* with the persistent tier on and before anything can have expired: an
\* entry was stored and read, nothing is left in either tier, and the last
\* get was answered not-found
RemovalEffectiveWitness ==
    /\ cache_dir
    /\ now = 0
    /\ hits = 1
    /\ misses = 1
    /\ \A k \in Keys : Gone(k)
    /\ last.op = "get"
    /\ last.value = NotFound

\* ------------------------------------------------------------------------
\* Concurrent callers of the cache
\* ------------------------------------------------------------------------
\* C19: under every interleaving of two callers no call ends in an error,
\* and once both callers are outside any call every get made has been
\* counted as one hit or one miss.
CacheSynchronized ==
    /\ \A c \in Callers : callers[c].pc # "raised"
    /\ (\A c \in Callers : callers[c].pc = "idle") => hits + misses = gets

\* ------------------------------------------------------------------------
\* Lazy initialisation
\* ------------------------------------------------------------------------
\* the number of times item occurs in the list
Occurrences(list, item) == Cardinality({i \in 1..Len(list) : list[i] = item})

\* C20: the repository is analysed at most once however the queries of two
\* callers interleave, and once the agent is initialised and no caller is
\* inside _ensure_initialized the symbol index holds each symbol location
\* exactly once and the reverse dependency graph each edge exactly once.
BuiltOnce ==
    /\ agent.analyses <= 1
    /\ (agent.initialized /\ \A q \in Queriers : queriers[q].pc = "idle")
          => /\ \A i \in 1..Len(IndexEntries(agent.repo)) :
                    LET e == IndexEntries(agent.repo)[i]
                    IN  Occurrences(agent.symbol_index[e[1]], e[2]) = 1
             /\ \A i \in 1..Len(ReverseEdges(agent.repo)) :
                    LET e == ReverseEdges(agent.repo)[i]
                    IN  Occurrences(agent.reverse_dependency_graph[e[1]], e[2]) = 1

\* ------------------------------------------------------------------------
\* Queries on the built agent
\* ------------------------------------------------------------------------
\* C21: no query changes the symbol index (the relevance_score of every
\* stored CodeLocation included) or the dependency graphs.
QueriesReadOnly ==
    [][/\ agent'.symbol_index = agent.symbol_index
       /\ agent'.dependency_graph = agent.dependency_graph
       /\ agent'.reverse_dependency_graph = agent.reverse_dependency_graph]_vars

\* ------------------------------------------------------------------------
\* Disk failures
\* ------------------------------------------------------------------------
\* a get(key) whose disk read raises or finds a corrupt file is answered
\* not-found and counted as one miss
ReadFailureIsMiss ==
    [][\A k \in Keys : Get(k, TRUE) => AnsweredMiss]_vars

\* C22: with the persistent tier on, a get whose disk read fails (read error
\* or corrupt file) returns not-found and counts exactly one miss, and a set
\* whose disk write fails still leaves the entry it stored in memory.
CacheIODegrades ==
    [][\A k \in Keys :
          /\ Get(k, TRUE) => AnsweredMiss
          /\ \A v \in Values, write \in {"open_fails", "dump_fails"} :
                Set(k, v, FALSE, 0, write)
                   => /\ InMemory(memory_cache', k)
                      /\ MemEntry(memory_cache', k).value = v]_vars

\* ------------------------------------------------------------------------
\* Cache keys
\* ------------------------------------------------------------------------
\* the two calls pass the same prefix, the same positional arguments and
\* equal keyword arguments, in whatever order the keywords are written
SameKeyInputs ==
    /\ keyCalls[1].prefix = keyCalls[2].prefix
    /\ keyCalls[1].args = keyCalls[2].args
    /\ {keyCalls[1].kwargs[i] : i \in 1..Len(keyCalls[1].kwargs)}
          = {keyCalls[2].kwargs[i] : i \in 1..Len(keyCalls[2].kwargs)}

\* calls with the same inputs, keywords in any order, get the same key
KeyOrderIndependent ==
    (keyResults # NoKeys /\ SameKeyInputs) => keyResults[1] = keyResults[2]

\* C23: two generate_key calls return the same key when their inputs are the
\* same (keyword arguments in any order) and different keys when their
\* inputs differ.
KeyStability ==
    keyResults # NoKeys => (SameKeyInputs <=> keyResults[1] = keyResults[2])

\* ------------------------------------------------------------------------
\* Workflow results
\* ------------------------------------------------------------------------
\* C24: the WorkflowResult a call to implement_feature or modify_code
\* returns has status completed or failed, computed or served from the
\* cache, and when a step raised it has status failed and the error recorded.
WorkflowTerminal ==
    returned.called
       => /\ returned.result.status \in {"completed", "failed"}
          /\ returned.raised => /\ returned.result.status = "failed"
                                /\ returned.result.errors # <<>>
          /\ \A r \in Requirements :
                cache.entries[r] # NoResult => cache.entries[r].status = "completed"

\* implement_feature served from the cache the result of an earlier call
\* that ran tasks, on a workflow that has also stored a result for the other
\* requirement
WorkflowTerminalWitness ==
    /\ returned.called
    /\ returned.from_cache
    /\ returned.result.tests_generated # <<>>
    /\ \A r \in Requirements : cache.entries[r] # NoResult

\* a step of a task raised after files had been written
WorkflowFailureWitness ==
    /\ returned.called
    /\ returned.raised
    /\ returned.result.files_created # <<>>

\* ------------------------------------------------------------------------
\* The two tiers
\* ------------------------------------------------------------------------
\* C25: with the persistent tier on, a get of a key that is not in memory and
\* has an unexpired entry on disk returns that entry's value, counts one hit
\* and leaves the entry in memory; a get of a key that is in memory,
\* unexpired, returns the memory entry's value, counts one hit and leaves the
\* disk as it is.
TwoTierLookup ==
    [][\A k \in Keys :
          /\ (IsGetOf(k) /\ ReadsDisk(k) /\ ~IsExpired(disk[k].entry, now))
                => /\ last'.value = disk[k].entry.value
                   /\ hits' = hits + 1
                   /\ misses' = misses
                   /\ InMemory(memory_cache', k)
                   /\ MemEntry(memory_cache', k).value = disk[k].entry.value
          /\ (IsGetOf(k) /\ ReadsMemory(k) /\ ~IsExpired(MemEntry(memory_cache, k), now))
                => /\ last'.value = MemEntry(memory_cache, k).value
                   /\ hits' = hits + 1
                   /\ misses' = misses
                   /\ disk' = disk]_vars

\* a get has just been answered from disk: the map holds the entry it
\* promoted on top of a full memory tier
TwoTierLookupWitness ==
    /\ cache_dir
    /\ last.op = "get"
    /\ last.value # NotFound
    /\ hits = 1
    /\ InMemory(memory_cache, last.key)
    /\ Len(memory_cache) > max_memory_items

\* ------------------------------------------------------------------------
\* Eviction
\* ------------------------------------------------------------------------
\* the memory map as set(key) leaves it before evicting: an existing key
\* keeps its place with a fresh entry, a new key goes last
StoredBy(key) ==
    DictSet(memory_cache, [CacheEntry(key, "-", NoExpiry) EXCEPT !.hit_count = 0])

PositionIn(mem, key) == CHOOSE i \in 1..Len(mem) : mem[i].key = key

RankingNeverRaises == rankResult.status # "raised"

\* ------------------------------------------------------------------------
\* Layers
\* ------------------------------------------------------------------------
\* C28: _get_layer gives every file path the layer that _detect_layers files
\* it under.
LayersAgree == layerOutput.done => layerOutput.get_layer = layerOutput.detect_layers

\* ------------------------------------------------------------------------
\* Impact analysis
\* ------------------------------------------------------------------------
\* C29: analyze_impact over the real tracer reports at most 10 direct and at
\* most 20 indirect callers, its risk level is never high, and the risk level
\* of an implementation_change is low.
ImpactNeverHigh ==
    impact.called =>
        /\ Len(impact.direct_callers) <= 10
        /\ Len(impact.indirect_callers) <= 20
        /\ impact.risk_level # "high"
        /\ impact.change_type = "implementation_change" => impact.risk_level = "low"

\* a deletion of a symbol with more than ten chains of callers, reported with
\* 10 direct and 20 indirect callers and a medium risk
ImpactNeverHighWitness ==
    /\ impact.called
    /\ impact.change_type = "deletion"
    /\ Len(FindCallers(files, impact.target_symbol)) > 10
    /\ Len(impact.direct_callers) = 10
    /\ Len(impact.indirect_callers) = 20
    /\ impact.risk_level = "medium"

\* ------------------------------------------------------------------------
\* Completeness of a trace
\* ------------------------------------------------------------------------
\* the while loop of the running trace has ended and the trace is to return
LoopEnded == pc \in {"upstream", "downstream"} /\ queue = <<>>

\* C30: a trace of an indexed symbol returns at least one path, every returned
\* path starts with the target node at depth 0, and when fewer than 10 paths
\* were produced every symbol the trace discovered is on a returned path.
TraceComplete ==
    LoopEnded =>
        LET returns == ReturnedPaths(paths) IN
        /\ Len(returns) >= 1
        /\ \A i \in 1..Len(returns) :
              returns[i][1] = CallChainNode(symbol, FirstLocation(files, symbol).file_path, 0)
        /\ Len(paths) < 10 =>
              \A i \in 1..Len(placed) :
                 \E j \in 1..Len(returns) : \E k \in 1..Len(returns[j]) :
                    KeyOf(returns[j][k]) = placed[i]

====
